---- MODULE Spec2Model ----
(***************************************************************************)
(* Model of smart_cloud_tag: the per-object tagging pipeline of            *)
(* SmartCloudTagger (core.py), the tag validation and merge functions      *)
(* (schemas.py, models.py) and the text helpers (utils.py).                *)
(*                                                                         *)
(* A Python str is a sequence of one-character strings; a tag mapping      *)
(* (dict) is a function whose DOMAIN is its key set.  A call returns       *)
(* Return(v) or Raise(kind, msg).                                          *)
(***************************************************************************)
EXTENDS Integers, Sequences, FiniteSets, TLC

VARIABLES
    fn,      \* the function under application ("none" while a facade runs)
    args,    \* its arguments
    ret,     \* its outcome, NotCalled before the call
    heap,    \* the objects its arguments refer to, and which object it returned
    self,    \* the constructed SmartCloudTagger
    bucket,  \* the object keys of the bucket, in listing order
    stored,  \* the tags the storage backend holds for each object
    pc,      \* position of _process_objects
    process_max_bytes,   \* its byte budget
    objects, \* the keys list_objects returned
    idx,     \* index of the object being processed
    loc,     \* existing_tags, truncated_content, proposed_tags, final_tags
    result,  \* the TaggingResult under construction
    calls,   \* the backend and LLM calls of the current run, in order
    outcome, \* what preview_tags / apply_tags returned or raised
    runs     \* number of runs started

fnVars == <<fn, args, ret, heap>>

runVars == <<self, bucket, stored, pc, process_max_bytes, objects, idx, loc, result,
             calls, outcome, runs>>

vars == <<fnVars, runVars>>

(***************************************************************************)
(* Bounds of the explored inputs.                                          *)
(***************************************************************************)
MaxRespLen == 4      \* characters of a completion after the optional prefix
MaxKeys == 3         \* tag keys handed to parse_llm_response
MaxContentLen == 3   \* characters of a content string handed to truncate_content
MaxBudget == 5       \* largest byte budget handed to truncate_content
MergeSpan == 3       \* existing-tag counts explored: 0..MergeSpan and around the limit
MaxSchemaKeys == 65  \* largest schema handed to the validators (gcp allows 63)
MaxObjects == 4      \* objects in the bucket
MaxRuns == 1         \* preview_tags / apply_tags calls on one facade
ConfiguredMaxBytes == 4  \* max_bytes given to the constructor of the facades run

(***************************************************************************)
(* Outcomes of a call.                                                     *)
(***************************************************************************)
NotCalled == [raised |-> "pending", msg |-> "", value |-> <<>>]
Return(v) == [raised |-> "none", msg |-> "", value |-> v]
Raise(kind, m) == [raised |-> kind, msg |-> m, value |-> <<>>]

\* the heap of the specifications that follow no object
NoHeap == <<>>

\* no facade is running: the state of the specifications that apply one function
NoRun ==
    /\ self = <<>> /\ bucket = <<>> /\ stored = <<>> /\ pc = "none"
    /\ process_max_bytes = 0 /\ objects = <<>> /\ idx = 0 /\ loc = <<>>
    /\ result = <<>> /\ calls = <<>> /\ outcome = NotCalled /\ runs = 0

(***************************************************************************)
(* str helpers.                                                            *)
(***************************************************************************)
Whitespace == {" ", "\t", "\n", "\r"}

RECURSIVE lstrip(_, _)
lstrip(s, cs) ==
    IF s = <<>> THEN s
    ELSE IF Head(s) \in cs THEN lstrip(Tail(s), cs) ELSE s

RECURSIVE rstrip(_, _)
rstrip(s, cs) ==
    IF s = <<>> THEN s
    ELSE IF s[Len(s)] \in cs THEN rstrip(SubSeq(s, 1, Len(s) - 1), cs) ELSE s

\* str.strip() with no argument strips whitespace; with an argument, its characters
strip(s, cs) == rstrip(lstrip(s, cs), cs)

startswith(s, p) == Len(p) <= Len(s) /\ SubSeq(s, 1, Len(p)) = p

RECURSIVE split(_, _)
split(s, sep) ==
    IF \E i \in 1..Len(s) : s[i] = sep
    THEN LET i == CHOOSE j \in 1..Len(s) :
                      s[j] = sep /\ \A k \in 1..(j - 1) : s[k] # sep
         IN <<SubSeq(s, 1, i - 1)>> \o split(SubSeq(s, i + 1, Len(s)), sep)
    ELSE <<s>>

(***************************************************************************)
(* utils.parse_llm_response                                                *)
(***************************************************************************)
prefixes_to_remove ==
    << <<"G","e","n","e","r","a","t","e","d"," ","t","a","g","s",":">>,
       <<"T","a","g","s",":">>,
       <<"V","a","l","u","e","s",":">>,
       <<"H","e","r","e"," ","a","r","e"," ","t","h","e"," ","t","a","g","s",":">>,
       <<"T","h","e"," ","t","a","g","s"," ","a","r","e",":">>,
       <<"B","a","s","e","d"," ","o","n"," ","t","h","e"," ","c","o","n","t","e","n","t",":">> >>

general == <<"g","e","n","e","r","a","l">>

\* for prefix in prefixes_to_remove: if cleaned.startswith(prefix): cut and strip
RECURSIVE remove_prefixes(_, _)
remove_prefixes(cleaned, i) ==
    IF i > Len(prefixes_to_remove) THEN cleaned
    ELSE LET prefix == prefixes_to_remove[i]
         IN IF startswith(cleaned, prefix)
            THEN remove_prefixes(
                     strip(SubSeq(cleaned, Len(prefix) + 1, Len(cleaned)), Whitespace),
                     i + 1)
            ELSE remove_prefixes(cleaned, i + 1)

\* [v.strip().strip("\"'") for v in cleaned.split(",")]
split_values(cleaned) ==
    LET pieces == split(cleaned, ",")
    IN [i \in 1..Len(pieces) |-> strip(strip(pieces[i], Whitespace), {"\"", "'"})]

\* [v for v in values if v]
filter_empty(values) == SelectSeq(values, LAMBDA v : v # <<>>)

\* the values parse_llm_response holds before it pads or truncates
cleaned_values(response) ==
    filter_empty(split_values(remove_prefixes(strip(response, Whitespace), 1)))

\* a padding that appends the empty string instead of "general"
RECURSIVE pad_values_empty(_, _)
pad_values_empty(values, n) ==
    IF Len(values) < n THEN pad_values_empty(Append(values, <<>>), n) ELSE values

\* while len(values) < len(tag_keys): values.append("general")
RECURSIVE pad_values(_, _)
pad_values(values, n) ==
    IF Len(values) < n THEN pad_values(Append(values, general), n) ELSE values

\* a repair that pads but forgets to cut a response that is too long
pad_or_truncate_no_cut(values, n) ==
    IF Len(values) < n THEN pad_values(values, n) ELSE values

pad_or_truncate(values, n) ==
    IF Len(values) < n THEN pad_values(values, n)
    ELSE IF Len(values) > n THEN SubSeq(values, 1, n)
    ELSE values

parse_llm_response(response, tag_keys) ==
    LET values == pad_or_truncate(cleaned_values(response), Len(tag_keys))
    IN IF Len(values) # Len(tag_keys)
       THEN Raise("ValueError", "Expected N values")
       ELSE Return(values)

(***************************************************************************)
(* Inputs of the response parser.                                          *)
(***************************************************************************)
RespAlphabet == {"a", "b", ",", " ", "\""}

RECURSIVE StringsUpTo(_, _)
StringsUpTo(alphabet, n) ==
    IF n = 0 THEN {<<>>}
    ELSE LET shorter == StringsUpTo(alphabet, n - 1)
         IN shorter \cup {Append(s, c) : s \in shorter, c \in alphabet}

\* a completion: nothing or one or two of the known prefixes, then a short body
RespPrefixes ==
    {<<>>, prefixes_to_remove[2], prefixes_to_remove[3] \o <<" ">> \o prefixes_to_remove[2],
     prefixes_to_remove[2] \o prefixes_to_remove[3]}

Responses == {p \o body : p \in RespPrefixes, body \in StringsUpTo(RespAlphabet, MaxRespLen)}

\* distinct well-formed keys "k", "kb", "kba", "kbb", ... (i written in binary)
RECURSIVE KeyName(_)
KeyName(i) ==
    IF i = 0 THEN <<"k">>
    ELSE Append(KeyName(i \div 2), IF i % 2 = 0 THEN "a" ELSE "b")

KeyList(n) == [i \in 1..n |-> KeyName(i)]

InitParse ==
    /\ fn = "parse_llm_response"
    /\ args \in {[response |-> r, tag_keys |-> KeyList(n)] : r \in Responses, n \in 0..MaxKeys}
    /\ ret = NotCalled
    /\ heap = NoHeap
    /\ NoRun

CallParse ==
    /\ fn = "parse_llm_response"
    /\ ret = NotCalled
    /\ ret' = parse_llm_response(args.response, args.tag_keys)
    /\ UNCHANGED <<fn, args, heap, runVars>>

NextParse == CallParse

SpecParse == InitParse /\ [][NextParse]_vars

(***************************************************************************)
(* Claims about parse_llm_response, under SpecParse.                       *)
(***************************************************************************)
ParseCalled == fn = "parse_llm_response" /\ ret # NotCalled

\* C4: for every completion and every key list of length N, parse_llm_response
\* returns exactly N values and never raises the 'Expected N values' error.
C4_ParseYieldsExactlyN ==
    ParseCalled =>
        /\ ret.raised = "none"
        /\ Len(ret.value) = Len(args.tag_keys)

\* a completion holding more values than keys has been parsed (truncation case)
C4_Witness ==
    /\ ParseCalled
    /\ Len(cleaned_values(args.response)) > Len(args.tag_keys)
    /\ Len(args.tag_keys) >= 1
    /\ ret.raised = "none"

\* C5: with v_1..v_k the non-empty cleaned pieces, the result is v_1..v_k followed
\* by N-k copies of "general" when k < N, v_1..v_N when k > N, v_1..v_k when k = N;
\* no returned value is empty.
C5_PadTruncatePolicy ==
    ParseCalled =>
        LET v == cleaned_values(args.response)
            k == Len(v)
            N == Len(args.tag_keys)
        IN /\ ret.raised = "none"
           /\ DOMAIN ret.value = 1..N
           /\ \A i \in 1..N :
                 /\ ret.value[i] = (IF i <= k THEN v[i] ELSE general)
                 /\ ret.value[i] # <<>>

\* a completion holding fewer values than keys, but at least one, has been padded
C5_Witness ==
    /\ ParseCalled
    /\ Len(cleaned_values(args.response)) >= 1
    /\ Len(cleaned_values(args.response)) < Len(args.tag_keys)
    /\ ret.value[Len(args.tag_keys)] = general

(***************************************************************************)
(* str.encode("utf-8") and bytes.decode("utf-8"): a character is its code  *)
(* point, a byte an integer in 0..255.                                     *)
(***************************************************************************)
IsSurrogate(cp) == cp >= 55296 /\ cp <= 57343

utf8_encode_char(cp) ==
    IF cp < 128 THEN <<cp>>
    ELSE IF cp < 2048 THEN <<192 + (cp \div 64), 128 + (cp % 64)>>
    ELSE IF cp < 65536
         THEN <<224 + (cp \div 4096), 128 + ((cp \div 64) % 64), 128 + (cp % 64)>>
    ELSE <<240 + (cp \div 262144), 128 + ((cp \div 4096) % 64),
           128 + ((cp \div 64) % 64), 128 + (cp % 64)>>

RECURSIVE utf8_concat(_)
utf8_concat(s) ==
    IF s = <<>> THEN <<>> ELSE utf8_encode_char(Head(s)) \o utf8_concat(Tail(s))

\* the strict encoder refuses a lone surrogate code point
utf8_encode(s) ==
    IF \E i \in 1..Len(s) : IsSurrogate(s[i])
    THEN Raise("UnicodeEncodeError", "surrogates not allowed")
    ELSE Return(utf8_concat(s))

is_continuation(b) == b \div 64 = 2        \* b & 0xC0 == 0x80

\* length of the sequence a lead byte announces, 0 for a byte that cannot lead
utf8_seq_len(b) ==
    IF b < 128 THEN 1
    ELSE IF b >= 194 /\ b <= 223 THEN 2
    ELSE IF b >= 224 /\ b <= 239 THEN 3
    ELSE IF b >= 240 /\ b <= 244 THEN 4
    ELSE 0

\* the second byte of a sequence excludes overlong forms, surrogates and > U+10FFFF
second_byte_ok(lead, b) ==
    /\ is_continuation(b)
    /\ (lead = 224 => b >= 160)
    /\ (lead = 237 => b <= 159)
    /\ (lead = 240 => b >= 144)
    /\ (lead = 244 => b <= 143)

utf8_complete_at_head(bs) ==
    LET n == utf8_seq_len(Head(bs))
    IN /\ n >= 1
       /\ Len(bs) >= n
       /\ (n >= 2 => second_byte_ok(bs[1], bs[2]))
       /\ \A i \in 3..n : is_continuation(bs[i])

utf8_code_point(bs, n) ==
    IF n = 1 THEN bs[1]
    ELSE IF n = 2 THEN (bs[1] - 192) * 64 + (bs[2] - 128)
    ELSE IF n = 3 THEN (bs[1] - 224) * 4096 + (bs[2] - 128) * 64 + (bs[3] - 128)
    ELSE (bs[1] - 240) * 262144 + (bs[2] - 128) * 4096 + (bs[3] - 128) * 64 + (bs[4] - 128)

\* errors = "strict" raises at the first undecodable byte, "ignore" drops it
RECURSIVE utf8_decode(_, _)
utf8_decode(bs, errors) ==
    IF bs = <<>> THEN Return(<<>>)
    ELSE IF utf8_complete_at_head(bs)
         THEN LET n == utf8_seq_len(Head(bs))
                  rest == utf8_decode(SubSeq(bs, n + 1, Len(bs)), errors)
              IN IF rest.raised # "none" THEN rest
                 ELSE Return(<<utf8_code_point(bs, n)>> \o rest.value)
    ELSE IF errors = "ignore" THEN utf8_decode(Tail(bs), errors)
    ELSE Raise("UnicodeDecodeError", "invalid or truncated sequence")

(***************************************************************************)
(* utils.truncate_content                                                  *)
(***************************************************************************)
\* a cut that keeps one byte more than the budget
cut_bytes_off_by_one(content_bytes, max_bytes) == SubSeq(content_bytes, 1, max_bytes + 1)

\* content_bytes[:max_bytes]; a negative max_bytes counts from the end
cut_bytes(content_bytes, max_bytes) ==
    IF max_bytes >= 0 THEN SubSeq(content_bytes, 1, max_bytes)
    ELSE SubSeq(content_bytes, 1, Len(content_bytes) + max_bytes)

\* while truncated_bytes and truncated_bytes[-1] & 0xC0 == 0x80: drop the last byte
RECURSIVE drop_trailing_continuation(_)
drop_trailing_continuation(truncated_bytes) ==
    IF truncated_bytes # <<>> /\ is_continuation(truncated_bytes[Len(truncated_bytes)])
    THEN drop_trailing_continuation(SubSeq(truncated_bytes, 1, Len(truncated_bytes) - 1))
    ELSE truncated_bytes

truncate_content(content, max_bytes) ==
    LET encoded == utf8_encode(content)
    IN IF encoded.raised # "none" THEN encoded
       ELSE IF Len(encoded.value) <= max_bytes THEN Return(content)
       ELSE LET truncated_bytes == cut_bytes(encoded.value, max_bytes)
                strict == utf8_decode(truncated_bytes, "strict")
            IN IF strict.raised = "none" THEN strict
               ELSE utf8_decode(drop_trailing_continuation(truncated_bytes), "ignore")

(***************************************************************************)
(* Inputs of truncate_content: strings over one code point of each UTF-8   *)
(* length and one lone surrogate (json.loads yields one for "\ud800").     *)
(***************************************************************************)
ContentAlphabet == {65, 233, 8364, 128512, 55296}

InitTruncate ==
    /\ fn = "truncate_content"
    /\ args \in {[content |-> c, max_bytes |-> b] :
                    c \in StringsUpTo(ContentAlphabet, MaxContentLen), b \in 1..MaxBudget}
    /\ ret = NotCalled
    /\ heap = NoHeap
    /\ NoRun

CallTruncate ==
    /\ fn = "truncate_content"
    /\ ret = NotCalled
    /\ ret' = truncate_content(args.content, args.max_bytes)
    /\ UNCHANGED <<fn, args, heap, runVars>>

NextTruncate == CallTruncate

SpecTruncate == InitTruncate /\ [][NextTruncate]_vars

(***************************************************************************)
(* Claims about truncate_content, under SpecTruncate.                      *)
(***************************************************************************)
TruncateCalled == fn = "truncate_content" /\ ret # NotCalled

Encodable(s) == \A i \in 1..Len(s) : ~IsSurrogate(s[i])

\* bytes of the UTF-8 encoding of an encodable string
ByteLen(s) == Len(utf8_concat(s))

\* the longest prefix of c, in whole characters, that fits in b bytes
LongestPrefixWithin(c, b) ==
    LET k == CHOOSE j \in 0..Len(c) :
                 /\ ByteLen(SubSeq(c, 1, j)) <= b
                 /\ \A m \in (j + 1)..Len(c) : ByteLen(SubSeq(c, 1, m)) > b
    IN SubSeq(c, 1, k)

TruncateContract(c, b, r) ==
    /\ r.raised = "none"
    /\ Encodable(r.value)
    /\ utf8_decode(utf8_concat(r.value), "strict") = Return(r.value)
    /\ ByteLen(r.value) <= b
    /\ truncate_content(r.value, b) = r
    /\ r.value = LongestPrefixWithin(c, b)

\* C10 as stated: for EVERY string c and positive budget b, truncate_content never
\* raises, returns valid UTF-8 of at most b bytes, is idempotent and returns the
\* longest whole-character prefix of c that fits in b bytes.
C10_TruncateTotalOnEveryString ==
    TruncateCalled => TruncateContract(args.content, args.max_bytes, ret)

\* C10 amended: for every string c without a lone surrogate code point and positive
\* budget b, truncate_content never raises, returns valid UTF-8 of at most b bytes,
\* is idempotent and returns the longest whole-character prefix of c that fits in b
\* bytes; on a string holding a lone surrogate it raises UnicodeEncodeError.
C10_TruncateOnEncodable ==
    TruncateCalled =>
        IF Encodable(args.content)
        THEN TruncateContract(args.content, args.max_bytes, ret)
        ELSE ret.raised = "UnicodeEncodeError"

\* a multi-byte character straddling the budget has been cut away whole
C10_Witness ==
    /\ TruncateCalled
    /\ Encodable(args.content)
    /\ ByteLen(args.content) > args.max_bytes
    /\ utf8_decode(cut_bytes(utf8_concat(args.content), args.max_bytes), "strict").raised # "none"
    /\ ret.raised = "none"
    /\ Len(ret.value) >= 1

(***************************************************************************)
(* schemas.py: provider limits and validators.  A tag mapping is a         *)
(* function from keys to values; a schema (config.tags, a dict in          *)
(* insertion order) is a sequence of [key, allowed] with distinct keys.    *)
(***************************************************************************)
\* an Optional value: None, or Some(x) for the value x
None == <<>>
Some(x) == <<x>>

limits ==
    [aws   |-> [max_tags |-> 10, max_key |-> 128, max_value |-> 256],
     azure |-> [max_tags |-> 10, max_key |-> 128, max_value |-> 256],
     gcp   |-> [max_tags |-> 64, max_key |-> 128, max_value |-> 1024]]

get_provider_tag_limits(provider) ==
    IF provider \notin DOMAIN limits
    THEN Raise("SchemaValidationError", "Unsupported storage provider")
    ELSE Return(limits[provider])

\* not s or not s.strip()
is_blank(s) == s = <<>> \/ strip(s, Whitespace) = <<>>

Range(seq) == {seq[i] : i \in 1..Len(seq)}

schema_keys(tags) == [i \in 1..Len(tags) |-> tags[i].key]

\* str.isalnum(): non-empty and every character alphanumeric (Unicode letters too)
AlnumChars ==
    {"a","b","c","d","e","f","g","h","i","j","k","l","m","n","o","p","q","r","s","t",
     "u","v","w","x","y","z","A","B","C","D","E","F","G","H","I","J","K","L","M","N",
     "O","P","Q","R","S","T","U","V","W","X","Y","Z","0","1","2","3","4","5","6","7",
     "8","9","é"}

isalnum(s) == s # <<>> /\ \A i \in 1..Len(s) : s[i] \in AlnumChars

\* key.replace("-", "").replace("_", "")
without_dash_underscore(key) == SelectSeq(key, LAMBDA c : c \notin {"-", "_"})

\* the check of one schema key, "" when it passes
schema_key_fault(key, lim) ==
    IF is_blank(key) THEN "Tag keys cannot be empty"
    ELSE IF Len(key) > lim.max_key THEN "Tag key exceeds character limit"
    ELSE IF ~isalnum(without_dash_underscore(key)) THEN "Tag key contains invalid characters"
    ELSE ""

\* a count check that lets a schema of exactly max_tags keys through
too_many_schema_keys_off_by_one(n, lim) == n > lim.max_tags

\* len(config.tags) >= limits["max_tags"]
too_many_schema_keys(n, lim) == n >= lim.max_tags

validate_tagging_config(tags, provider) ==
    LET lim == get_provider_tag_limits(provider)
        keys == schema_keys(tags)
    IN IF lim.raised # "none" THEN lim
       ELSE IF too_many_schema_keys(Len(tags), lim.value)
            THEN Raise("SchemaValidationError", "Maximum tags per object")
       ELSE IF Len(tags) # Cardinality(Range(keys))
            THEN Raise("SchemaValidationError", "Tag keys must be unique")
       ELSE IF \E i \in 1..Len(keys) : schema_key_fault(keys[i], lim.value) # ""
            THEN LET i == CHOOSE j \in 1..Len(keys) :
                              /\ schema_key_fault(keys[j], lim.value) # ""
                              /\ \A m \in 1..(j - 1) : schema_key_fault(keys[m], lim.value) = ""
                 IN Raise("SchemaValidationError", schema_key_fault(keys[i], lim.value))
       ELSE Return(None)

\* the check of one tag value, "" when it passes
tag_value_fault(value, lim) ==
    IF is_blank(value) THEN "Tag value cannot be empty"
    ELSE IF Len(value) > lim.max_value THEN "Tag value exceeds character limit"
    ELSE ""

validate_tag_values(values, tag_keys, provider) ==
    LET lim == get_provider_tag_limits(provider)
    IN IF lim.raised # "none" THEN lim
       ELSE IF Len(values) # Len(tag_keys)
            THEN Raise("SchemaValidationError", "Expected N values")
       ELSE IF \E i \in 1..Len(values) : tag_value_fault(values[i], lim.value) # ""
            THEN LET i == CHOOSE j \in 1..Len(values) :
                              /\ tag_value_fault(values[j], lim.value) # ""
                              /\ \A m \in 1..(j - 1) : tag_value_fault(values[m], lim.value) = ""
                 IN Raise("SchemaValidationError", tag_value_fault(values[i], lim.value))
       ELSE Return(None)

\* {key: value.strip() for key, value in zip(tag_keys, values)}
create_tag_mapping(tag_keys, values, provider) ==
    LET checked == validate_tag_values(values, tag_keys, provider)
    IN IF checked.raised # "none" THEN checked
       ELSE Return([k \in Range(tag_keys) |->
                       LET i == CHOOSE j \in 1..Len(tag_keys) :
                                    /\ tag_keys[j] = k
                                    /\ \A m \in (j + 1)..Len(tag_keys) : tag_keys[m] # k
                       IN strip(values[i], Whitespace)])

\* the check of one existing tag, "" when it passes
existing_tag_fault(key, value, lim) ==
    IF is_blank(key) THEN "Tag key cannot be empty"
    ELSE IF Len(key) > lim.max_key THEN "Tag key exceeds character limit"
    ELSE IF is_blank(value) THEN "Tag value cannot be empty"
    ELSE IF Len(value) > lim.max_value THEN "Tag value exceeds character limit"
    ELSE ""

\* the message is that of the first offending tag in dict order, which a function
\* does not record: some offending tag stands for it
validate_existing_tags(tags, provider) ==
    LET lim == get_provider_tag_limits(provider)
    IN IF lim.raised # "none" THEN lim
       ELSE IF Cardinality(DOMAIN tags) > lim.value.max_tags
            THEN Raise("SchemaValidationError", "Object has too many tags")
       ELSE IF \E k \in DOMAIN tags : existing_tag_fault(k, tags[k], lim.value) # ""
            THEN LET k == CHOOSE x \in DOMAIN tags :
                              existing_tag_fault(x, tags[x], lim.value) # ""
                 IN Raise("SchemaValidationError", existing_tag_fault(k, tags[k], lim.value))
       ELSE Return(None)

\* list(new_tags.values()): in key-list order when new_tags holds one value per key
\* (the order create_tag_mapping inserts them), in some order otherwise
RECURSIVE some_order(_)
some_order(S) ==
    IF S = {} THEN <<>>
    ELSE LET x == CHOOSE y \in S : TRUE IN <<x>> \o some_order(S \ {x})

dict_values(new_tags, tag_keys) ==
    IF DOMAIN new_tags = Range(tag_keys) /\ Cardinality(Range(tag_keys)) = Len(tag_keys)
    THEN [i \in 1..Len(tag_keys) |-> new_tags[tag_keys[i]]]
    ELSE LET ks == some_order(DOMAIN new_tags)
         IN [i \in 1..Len(ks) |-> new_tags[ks[i]]]

\* a merge in which a value already on the object wins over the proposed one
overlay_existing_wins(existing_tags, new_tags, tag_keys) ==
    [k \in (DOMAIN existing_tags) \cup (DOMAIN new_tags) |->
        IF k \in DOMAIN existing_tags THEN existing_tags[k] ELSE new_tags[k]]

\* a merge that keeps the proposed tags alone
overlay_proposed_only(existing_tags, new_tags, tag_keys) == new_tags

\* merged = {k: v for k, v in existing_tags.items() if k not in tag_keys}
\* merged.update(new_tags)
overlay(existing_tags, new_tags, tag_keys) ==
    [k \in ((DOMAIN existing_tags) \ Range(tag_keys)) \cup (DOMAIN new_tags) |->
        IF k \in DOMAIN new_tags THEN new_tags[k] ELSE existing_tags[k]]

\* a limit check that never fires
exceeds_tag_limit_never(merged, lim) == FALSE

\* len(merged) > limits["max_tags"]
exceeds_tag_limit(merged, lim) == Cardinality(DOMAIN merged) > lim.max_tags

\* a merge that checks the proposed values before the tags on the object
merge_and_validate_tags_proposed_first(existing_tags, new_tags, tag_keys, provider) ==
    LET lim == get_provider_tag_limits(provider)
        old_ok == validate_existing_tags(existing_tags, provider)
        new_ok == validate_tag_values(dict_values(new_tags, tag_keys), tag_keys, provider)
        merged == overlay(existing_tags, new_tags, tag_keys)
    IN IF lim.raised # "none" THEN lim
       ELSE IF new_ok.raised # "none" THEN new_ok
       ELSE IF old_ok.raised # "none" THEN old_ok
       ELSE IF exceeds_tag_limit(merged, lim.value)
            THEN Raise("SchemaValidationError", "Total tags would exceed the limit")
       ELSE Return(merged)

merge_and_validate_tags(existing_tags, new_tags, tag_keys, provider) ==
    LET lim == get_provider_tag_limits(provider)
        old_ok == validate_existing_tags(existing_tags, provider)
        new_ok == validate_tag_values(dict_values(new_tags, tag_keys), tag_keys, provider)
        merged == overlay(existing_tags, new_tags, tag_keys)
    IN IF lim.raised # "none" THEN lim
       ELSE IF old_ok.raised # "none" THEN old_ok
       ELSE IF new_ok.raised # "none" THEN new_ok
       ELSE IF exceeds_tag_limit(merged, lim.value)
            THEN Raise("SchemaValidationError", "Total tags would exceed the limit")
       ELSE Return(merged)

(***************************************************************************)
(* Inputs of merge_and_validate_tags: k1 existing tags (few, or around the *)
(* provider's limit) and a key list of k2 keys of which s are on the       *)
(* object already.                                                         *)
(***************************************************************************)
OldValue == <<"o","l","d">>
NewValue == <<"n","e","w">>

Providers == {"aws", "azure", "gcp"}

ExistingCounts(provider) ==
    (0..MergeSpan) \cup ((limits[provider].max_tags - MergeSpan)..(limits[provider].max_tags + 1))

\* keys first..(first + n - 1)
KeysFrom(first, n) == [i \in 1..n |-> KeyName(first + i - 1)]

\* first keys that give every overlap s from min(k1, k2) down to 0
FirstKeys(k1, k2) == (IF k1 - k2 + 1 > 1 THEN k1 - k2 + 1 ELSE 1)..(k1 + 1)

MergeInput(p, k1, k2, first) ==
    [existing_tags |-> [k \in Range(KeysFrom(1, k1)) |-> OldValue],
     new_tags |-> [k \in Range(KeysFrom(first, k2)) |-> NewValue],
     tag_keys |-> KeysFrom(first, k2),
     provider |-> p]

\* a value one character over the provider's limit
LongValue(p) == [i \in 1..(limits[p].max_value + 1) |-> "v"]

\* one tag as the object may carry it: well-formed, or with an empty, blank or
\* over-long key, or an empty, blank or over-long value under a schema key
\* (KeyName(1)) or under another key (KeyName(3))
ExistingTagKinds(p) ==
    {[key |-> KeyName(3), value |-> OldValue],
     [key |-> <<>>, value |-> OldValue],
     [key |-> <<" ">>, value |-> OldValue],
     [key |-> [i \in 1..(limits[p].max_key + 1) |-> "a"], value |-> OldValue]}
    \cup {[key |-> k, value |-> v] : k \in {KeyName(1), KeyName(3)},
                                     v \in {<<>>, <<" ">>, LongValue(p)}}

ProposedValues(p) == {NewValue, <<>>, <<" ">>, LongValue(p)}

\* the tag above among n well-formed tags that are no schema keys, and a proposal
\* for the schema keys KeyName(1), KeyName(2) whose first value is v
FaultyMergeInput(p, tag, v, n) ==
    [existing_tags |-> [k \in {tag.key} \cup Range(KeysFrom(5, n)) |->
                           IF k = tag.key THEN tag.value ELSE OldValue],
     new_tags |-> [k \in Range(KeysFrom(1, 2)) |-> IF k = KeyName(1) THEN v ELSE NewValue],
     tag_keys |-> KeysFrom(1, 2),
     provider |-> p]

FaultyMergeInputs ==
    UNION {{FaultyMergeInput(p, tag, v, n) :
                tag \in ExistingTagKinds(p), v \in ProposedValues(p),
                n \in {0, limits[p].max_tags - 1, limits[p].max_tags}} :
           p \in Providers}

MergeInputs ==
    FaultyMergeInputs \cup
    UNION {UNION {UNION {{MergeInput(p, k1, k2, first) : first \in FirstKeys(k1, k2)} :
                         k2 \in 1..(MergeSpan + 1)} :
                  k1 \in ExistingCounts(p)} :
           p \in Providers}

\* the dicts and the list the caller passes, before the call
ArgumentObjects(a) ==
    [existing_tags |-> a.existing_tags, new_tags |-> a.new_tags, tag_keys |-> a.tag_keys,
     returned |-> "nothing"]

\* a merge that updates the dict of existing tags and returns it
merge_heap_in_place(h, provider) ==
    LET r == merge_and_validate_tags(h.existing_tags, h.new_tags, h.tag_keys, provider)
    IN IF r.raised = "none"
       THEN [h EXCEPT !.existing_tags = r.value, !.returned = "existing_tags"]
       ELSE h

\* the objects after the call: merged is a dict the comprehension creates,
\* merged.update(new_tags) writes to it alone, and it is the object returned;
\* existing_tags, new_tags and tag_keys are only read (.items(), .values(), in)
merge_heap(h, provider) ==
    LET r == merge_and_validate_tags(h.existing_tags, h.new_tags, h.tag_keys, provider)
    IN IF r.raised = "none" THEN [h EXCEPT !.returned = "merged"] ELSE h

InitMerge ==
    /\ fn = "merge_and_validate_tags"
    /\ args \in MergeInputs
    /\ ret = NotCalled
    /\ heap = ArgumentObjects(args)
    /\ NoRun

CallMerge ==
    /\ fn = "merge_and_validate_tags"
    /\ ret = NotCalled
    /\ ret' = merge_and_validate_tags(heap.existing_tags, heap.new_tags,
                                      heap.tag_keys, args.provider)
    /\ heap' = merge_heap(heap, args.provider)
    /\ UNCHANGED <<fn, args, runVars>>

NextMerge == CallMerge

SpecMerge == InitMerge /\ [][NextMerge]_vars

(***************************************************************************)
(* Claims about merge_and_validate_tags, under SpecMerge.                  *)
(***************************************************************************)
MergeCalled == fn = "merge_and_validate_tags" /\ ret # NotCalled

ValidExisting(tags, provider) == validate_existing_tags(tags, provider).raised = "none"

ValidProposed(new_tags, tag_keys, provider) ==
    /\ DOMAIN new_tags = Range(tag_keys)
    /\ \A k \in DOMAIN new_tags : tag_value_fault(new_tags[k], limits[provider]) = ""

\* C6: for a valid existing mapping of k1 tags and a valid proposed mapping of k2
\* tags of which s keys occur in existing, the merge returns exactly k1 - s + k2
\* entries when that is <= the backend's max-tag-count and raises
\* SchemaValidationError when it is greater; a returned mapping never exceeds the limit.
C6_MergeCount ==
    (MergeCalled /\ ValidExisting(args.existing_tags, args.provider)
                 /\ ValidProposed(args.new_tags, args.tag_keys, args.provider)) =>
        LET k1 == Cardinality(DOMAIN args.existing_tags)
            k2 == Cardinality(DOMAIN args.new_tags)
            s  == Cardinality((DOMAIN args.existing_tags) \cap (DOMAIN args.new_tags))
            max == limits[args.provider].max_tags
        IN IF k1 - s + k2 <= max
           THEN /\ ret.raised = "none"
                /\ Cardinality(DOMAIN ret.value) = k1 - s + k2
                /\ Cardinality(DOMAIN ret.value) <= max
           ELSE ret.raised = "SchemaValidationError"

\* a merge of a full object with a partly overlapping schema was rejected on count
C6_Witness ==
    /\ MergeCalled
    /\ ValidExisting(args.existing_tags, args.provider)
    /\ (DOMAIN args.existing_tags) \cap (DOMAIN args.new_tags) # {}
    /\ ret.raised = "SchemaValidationError"
    /\ ret.msg = "Total tags would exceed the limit"

\* C7: a successful merge maps every schema key to its proposed value, every
\* existing key that is no schema key to its existing value, and has no other key.
C7_NewValuesOverride ==
    (MergeCalled /\ ret.raised = "none") =>
        /\ DOMAIN ret.value = Range(args.tag_keys) \cup (DOMAIN args.existing_tags)
        /\ \A k \in Range(args.tag_keys) : ret.value[k] = args.new_tags[k]
        /\ \A k \in (DOMAIN args.existing_tags) \ Range(args.tag_keys) :
               ret.value[k] = args.existing_tags[k]

\* a merge succeeded on an object that already carried a schema key and another key
C7_Witness ==
    /\ MergeCalled
    /\ ret.raised = "none"
    /\ \E k \in Range(args.tag_keys) :
           k \in DOMAIN args.existing_tags /\ ret.value[k] # args.existing_tags[k]
    /\ (DOMAIN args.existing_tags) \ Range(args.tag_keys) # {}

(***************************************************************************)
(* Inputs of the schema validators: n well-formed keys, the last of them   *)
(* possibly replaced by a malformed one.                                   *)
(***************************************************************************)
LongKey == [i \in 1..(limits.aws.max_key + 1) |-> "a"]

MalformedKeys ==
    {<<>>, <<" ">>, <<"a", "!">>, <<"-">>, <<"a", " ", "b">>, LongKey}

WellFormedSchema(n) == [i \in 1..n |-> [key |-> KeyName(i), allowed |-> None]]

\* keys at the edges of the key rules: a non-ASCII letter, dashes and underscores
\* alone and among letters and digits, a key of exactly max_key characters
ProbeKeys ==
    {<<"é">>, <<"a", "é">>, <<"_">>, <<"-", "_">>, <<"a", "-", "b">>, <<"A", "_", "1">>,
     <<"-", "a">>, [i \in 1..limits.aws.max_key |-> "a"]}

Schemas ==
    {WellFormedSchema(n) : n \in 0..MaxSchemaKeys}
        \cup {[WellFormedSchema(n) EXCEPT ![n].key = bad] :
                  n \in 1..MaxSchemaKeys, bad \in MalformedKeys \cup ProbeKeys}

WellFormed(tags) == \E n \in 0..Len(tags) : tags = WellFormedSchema(n)

InitValidateConfig ==
    /\ fn = "validate_tagging_config"
    /\ args \in {[tags |-> t, provider |-> p] : t \in Schemas, p \in Providers \cup {"s3"}}
    /\ ret = NotCalled
    /\ heap = NoHeap
    /\ NoRun

CallValidateConfig ==
    /\ fn = "validate_tagging_config"
    /\ ret = NotCalled
    /\ ret' = validate_tagging_config(args.tags, args.provider)
    /\ UNCHANGED <<fn, args, heap, runVars>>

NextValidateConfig == CallValidateConfig

SpecValidateConfig == InitValidateConfig /\ [][NextValidateConfig]_vars

(***************************************************************************)
(* Claims about validate_tagging_config, under SpecValidateConfig.         *)
(***************************************************************************)
ValidateConfigCalled == fn = "validate_tagging_config" /\ ret # NotCalled

\* C8: validate_tagging_config rejects with SchemaValidationError every schema whose
\* key count is >= the backend's max-tag-count and rejects no smaller schema on
\* count (aws: 10 valid keys rejected, 9 accepted); an unknown backend identifier
\* is rejected with SchemaValidationError.
C8_SchemaCountLimit ==
    ValidateConfigCalled =>
        /\ args.provider \notin Providers =>
               ret.raised = "SchemaValidationError"
        /\ (args.provider \in Providers
              /\ Len(args.tags) >= limits[args.provider].max_tags) =>
               ret.raised = "SchemaValidationError"
        /\ (args.provider \in Providers
              /\ Len(args.tags) < limits[args.provider].max_tags) =>
               /\ ret.msg # "Maximum tags per object"
               /\ WellFormed(args.tags) => ret.raised = "none"
        /\ (args.provider = "aws" /\ args.tags = WellFormedSchema(10)) =>
               ret.raised = "SchemaValidationError"
        /\ (args.provider = "aws" /\ args.tags = WellFormedSchema(9)) =>
               ret.raised = "none"

\* a schema of exactly max-tag-count well-formed keys has been rejected
C8_Witness ==
    /\ ValidateConfigCalled
    /\ args.provider \in Providers
    /\ WellFormed(args.tags)
    /\ Len(args.tags) = limits[args.provider].max_tags
    /\ ret.raised = "SchemaValidationError"
    /\ ret.msg = "Maximum tags per object"

(***************************************************************************)
(* models.TaggingConfig and core.SmartCloudTagger.__init__.  The           *)
(* environment of a construction: whether the storage SDK imports, the     *)
(* storage credentials are set, the bucket answers, API_KEY is set, the    *)
(* LLM SDK imports and the LLM service answers.                            *)
(***************************************************************************)
\* str.lower() on the provider identifiers explored
lower(id) ==
    CASE id = "AWS" -> "aws"
      [] id = "GCP" -> "gcp"
      [] id = "OpenAI" -> "openai"
      [] OTHER -> id

\* TaggingConfig.validate_tags
validate_tags(v) ==
    IF Len(v) >= 10 THEN Raise("ValidationError", "Tags must be < 10.")
    ELSE IF Len(v) = 0 THEN Raise("ValidationError", "tags cannot be empty.")
    ELSE Return(v)

\* TaggingConfig.validate_max_bytes; None is no int
validate_max_bytes(v) ==
    IF v = None THEN Raise("ValidationError", "none is not an allowed value")
    ELSE IF v[1] <= 0 THEN Raise("ValidationError", "max_bytes must be positive.")
    ELSE Return(v[1])

\* pydantic runs the field validators in field order and raises ValidationError
TaggingConfig(tags, max_bytes) ==
    LET t == validate_tags(tags)
        b == validate_max_bytes(max_bytes)
    IN IF t.raised # "none" THEN t
       ELSE IF b.raised # "none" THEN b
       ELSE Return([tags |-> tags, max_bytes |-> b.value])

init_storage_provider(storage_provider_type, env) ==
    CASE storage_provider_type = "aws" ->
            IF ~env.storage_sdk
            THEN Raise("ConfigurationError", "AWS provider not available")
            ELSE IF ~env.storage_credentials
            THEN Raise("StorageError", "AWS credentials not provided")
            ELSE IF ~env.storage_reachable
            THEN Raise("StorageError", "AWS S3 error")
            ELSE Return("AWSS3Provider")
      [] storage_provider_type = "azure" ->
            IF ~env.storage_credentials
            THEN Raise("ConfigurationError", "AZURE_STORAGE_CONNECTION_STRING is required")
            ELSE IF ~env.storage_sdk
            THEN Raise("ConfigurationError", "Azure provider not available")
            ELSE IF ~env.storage_reachable
            THEN Raise("StorageError", "Failed to initialize Azure Blob client")
            ELSE Return("AzureBlobProvider")
      [] storage_provider_type = "gcp" ->
            IF ~env.storage_credentials
            THEN Raise("ConfigurationError", "GOOGLE_APPLICATION_CREDENTIALS is required")
            ELSE IF ~env.storage_sdk
            THEN Raise("StorageError", "Google Cloud Storage not available")
            ELSE IF ~env.storage_reachable
            THEN Raise("StorageError", "Failed to initialize GCS client")
            ELSE Return("GCSProvider")

init_llm_provider(llm_provider_type, env) ==
    IF ~env.api_key
    THEN Raise("ConfigurationError", "API_KEY environment variable is required")
    ELSE CASE llm_provider_type = "openai" ->
                 IF ~env.llm_sdk
                 THEN Raise("ConfigurationError", "OpenAI provider not available")
                 ELSE IF ~env.llm_reachable
                 THEN Raise("LLMError", "Failed to initialize OpenAI client")
                 ELSE Return("OpenAIProvider")
           [] llm_provider_type = "anthropic" ->
                 IF ~env.llm_sdk
                 THEN Raise("LLMError", "Anthropic not available")
                 ELSE Return("AnthropicProvider")
           [] llm_provider_type = "gemini" ->
                 IF ~env.llm_sdk
                 THEN Raise("LLMError", "Gemini not available")
                 ELSE Return("GeminiProvider")

\* llm_provider.is_available()
is_available(llm_provider_type, env) ==
    IF llm_provider_type = "openai" THEN env.llm_reachable ELSE env.llm_sdk

\* the "Invalid configuration: " prefix of the wrapped message is left out
SmartCloudTagger_init(a) ==
    LET storage_provider_type == lower(a.storage_provider)
        llm_provider_type == lower(a.llm_provider)
        config == TaggingConfig(a.tags, a.max_bytes)
        checked == validate_tagging_config(a.tags, storage_provider_type)
        storage == init_storage_provider(storage_provider_type, a.env)
        llm == init_llm_provider(llm_provider_type, a.env)
    IN IF storage_provider_type \notin {"aws", "azure", "gcp"}
       THEN Raise("ConfigurationError", "storage_provider must be 'aws', 'azure', or 'gcp'")
       ELSE IF llm_provider_type \notin {"openai", "anthropic", "gemini"}
       THEN Raise("ConfigurationError", "llm_provider must be 'openai', 'anthropic', or 'gemini'")
       ELSE IF config.raised # "none" THEN config
       ELSE IF checked.raised # "none" THEN Raise("ConfigurationError", checked.msg)
       ELSE IF storage.raised # "none" THEN storage
       ELSE IF llm.raised # "none" THEN llm
       ELSE IF ~is_available(llm_provider_type, a.env)
       THEN Raise("ConfigurationError", "LLM provider not available")
       ELSE Return([storage_provider_type |-> storage_provider_type,
                    llm_provider_type |-> llm_provider_type,
                    tags |-> a.tags,
                    max_bytes |-> config.value.max_bytes,
                    custom_prompt_template |-> a.custom_prompt_template])

(***************************************************************************)
(* Inputs of a construction: every environment with at most one fault.     *)
(***************************************************************************)
EnvFlags == {"storage_sdk", "storage_credentials", "storage_reachable",
             "api_key", "llm_sdk", "llm_reachable"}

GoodEnv == [f \in EnvFlags |-> TRUE]

Envs == {GoodEnv} \cup {[GoodEnv EXCEPT ![f] = FALSE] : f \in EnvFlags}

\* the well-formed schemas, and short schemas whose last key is malformed
ConstructSchemas ==
    {WellFormedSchema(n) : n \in 0..MaxSchemaKeys}
        \cup {[WellFormedSchema(n) EXCEPT ![n].key = bad] :
                  n \in 1..2, bad \in MalformedKeys}

ConstructInputs ==
    {[storage_provider |-> sp, llm_provider |-> lp, tags |-> t,
      max_bytes |-> b, env |-> e, custom_prompt_template |-> None] :
        sp \in {"aws", "azure", "gcp", "GCP", "ftp"},
        lp \in {"openai", "anthropic", "gemini", "llama"},
        t \in ConstructSchemas,
        b \in {None, Some(0), Some(5000)},
        e \in Envs}

InitConstruct ==
    /\ fn = "SmartCloudTagger"
    /\ args \in ConstructInputs
    /\ ret = NotCalled
    /\ heap = NoHeap
    /\ NoRun

CallConstruct ==
    /\ fn = "SmartCloudTagger"
    /\ ret = NotCalled
    /\ ret' = SmartCloudTagger_init(args)
    /\ UNCHANGED <<fn, args, heap, runVars>>

NextConstruct == CallConstruct

SpecConstruct == InitConstruct /\ [][NextConstruct]_vars

(***************************************************************************)
(* Claims about the construction, under SpecConstruct.                     *)
(***************************************************************************)
ConstructCalled == fn = "SmartCloudTagger" /\ ret # NotCalled

SchemaSizeMessages ==
    {"Tags must be < 10.", "tags cannot be empty.", "Maximum tags per object"}

\* C9: at construction a schema of n well-formed keys passes all schema-size checks
\* exactly when 1 <= n < the chosen storage backend's max-tag-count (10 for aws and
\* azure, 64 for gcp), e.g. 10 to 63 keys with gcp.
C9_SchemaSizeFollowsBackend ==
    (ConstructCalled
       /\ lower(args.storage_provider) \in Providers
       /\ lower(args.llm_provider) \in {"openai", "anthropic", "gemini"}) =>
        LET n == Len(args.tags)
            max == limits[lower(args.storage_provider)].max_tags
        IN (ret.msg \notin SchemaSizeMessages) <=> (1 <= n /\ n < max)

(***************************************************************************)
(* utils.get_file_type, utils.parse_file_content and the storage and LLM   *)
(* backends, as far as _process_objects uses them.  A file's text is a     *)
(* sequence of code points, its content a sequence of bytes.               *)
(***************************************************************************)
UpperCase == <<"A","B","C","D","E","F","G","H","I","J","K","L","M",
               "N","O","P","Q","R","S","T","U","V","W","X","Y","Z">>
LowerCase == <<"a","b","c","d","e","f","g","h","i","j","k","l","m",
               "n","o","p","q","r","s","t","u","v","w","x","y","z">>

\* str.lower()
lower_str(s) ==
    [n \in 1..Len(s) |->
        IF \E j \in 1..26 : UpperCase[j] = s[n]
        THEN LowerCase[CHOOSE j \in 1..26 : UpperCase[j] = s[n]]
        ELSE s[n]]

supported_extensions ==
    {<<"t","x","t">>, <<"m","d">>, <<"j","s","o","n">>, <<"c","s","v">>}

\* filename.lower().split(".")[-1] if "." in filename else ""
file_ext(filename) ==
    IF "." \in Range(filename)
    THEN LET parts == split(lower_str(filename), ".") IN parts[Len(parts)]
    ELSE <<>>

\* a test that takes any name with a dot for a supported one
is_supported_file_type_any_dot(filename) == "." \in Range(filename)

is_supported_file_type(filename) == file_ext(filename) \in supported_extensions

\* an Optional FileType
get_file_type(filename) ==
    IF ~is_supported_file_type(filename) THEN None ELSE Some(file_ext(filename))

\* the texts among those explored that json.loads accepts; json.dumps(indent=2)
\* writes a scalar back as it was read
JsonDocuments == {<<49>>}

\* csv rendering of a text of one row and one field
render_csv(text) == IF text = <<>> THEN <<>> ELSE <<72,101,97,100,101,114,115,58,32>> \o text

parse_file_content(content, file_type) ==
    LET decoded == utf8_decode(content, "strict")
    IN IF decoded.raised # "none"
       THEN Raise("FileProcessingError", "Failed to parse file")
       ELSE IF file_type = <<"j","s","o","n">>
            THEN IF decoded.value \in JsonDocuments THEN decoded
                 ELSE Raise("FileProcessingError", "Failed to parse file")
       ELSE IF file_type = <<"c","s","v">> THEN Return(render_csv(decoded.value))
       ELSE decoded

\* a read that returns what is stored on every backend
get_object_tags_reads_store(provider, store, key) == store[key]

\* AzureBlobProvider.get_object_tags returns {}; S3 and GCS return what is stored
get_object_tags(provider, store, key) ==
    IF provider = "azure" THEN <<>> ELSE store[key]

\* the first max_bytes bytes of the object (all of it when max_bytes <= 0 on S3
\* and GCS, when the blob is no larger than max_bytes on Azure)
first_bytes(content, n) ==
    SubSeq(content, 1, IF n < Len(content) THEN n ELSE Len(content))

get_object_content(provider, content, max_bytes) ==
    IF provider = "azure"
    THEN IF Len(content) <= max_bytes THEN content ELSE first_bytes(content, max_bytes)
    ELSE IF max_bytes > 0 THEN first_bytes(content, max_bytes) ELSE content

\* AzureBlobProvider.set_object_tags is a no-op; S3 and GCS replace the tag set
set_object_tags(provider, store, key, tags) ==
    IF provider = "azure" THEN store ELSE [store EXCEPT ![key] = tags]

required_placeholders == <<"{tags}", "{content}", "{filename}">>

\* a template is the sequence of its tokens: the three replacement fields, another
\* replacement field, the escaped braces "{{tags}}", and text without braces
TemplateTokens == {"{tags}", "{content}", "{filename}", "{other}", "{{tags}}", "text"}

\* placeholder in custom_template: "{tags}" is also a substring of "{{tags}}"
contains(custom_template, placeholder) ==
    \E i \in 1..Len(custom_template) :
        \/ custom_template[i] = placeholder
        \/ custom_template[i] = "{{tags}}" /\ placeholder = "{tags}"

\* what str.format writes for one token
format_field(token, tags, content, filename) ==
    CASE token = "{tags}" -> [tags |-> tags]
      [] token = "{content}" -> [content |-> content]
      [] token = "{filename}" -> [filename |-> filename]
      [] token = "{{tags}}" -> [text |-> "{tags}"]
      [] OTHER -> [text |-> token]

\* custom_template.format(tags=tags, content=content_preview, filename=filename)
str_format(custom_template, tags, content, filename) ==
    IF \E i \in 1..Len(custom_template) : custom_template[i] = "{other}"
    THEN Raise("KeyError", "other")
    ELSE Return([i \in 1..Len(custom_template) |->
                    format_field(custom_template[i], tags, content, filename)])

\* the message of the ValueError is the sequence of the parts of its f-string
format_custom_llm_prompt(custom_template, tags, content_preview, filename) ==
    LET missing_placeholders ==
            SelectSeq(required_placeholders, LAMBDA ph : ~contains(custom_template, ph))
    IN IF missing_placeholders # <<>>
       THEN Raise("ValueError",
                  <<"Custom prompt template is missing required placeholders: ",
                    missing_placeholders, ". Required placeholders: ",
                    required_placeholders>>)
       ELSE str_format(custom_template, tags, content_preview, filename)

\* the default prompt is the sequence of the parts of its f-string
format_llm_prompt(tags, content_preview, filename) ==
    IF is_blank(filename)
    THEN Raise("ValueError", "filename is required and cannot be empty")
    ELSE Return(<<[text |-> "Analyze the following content and generate exactly"],
                  [count |-> Len(tags)],
                  [constraints |-> tags],
                  [filename |-> filename],
                  [content |-> content_preview],
                  [text |-> "Instructions"]>>)

\* if request.custom_prompt_template: ... else: ...
format_prompt(custom_prompt_template, tags, content, filename) ==
    IF custom_prompt_template # None /\ custom_prompt_template[1] # <<>>
    THEN format_custom_llm_prompt(custom_prompt_template[1], tags, content, filename)
    ELSE format_llm_prompt(tags, content, filename)

\* the requests generate_tags sends to the LLM service
api_requests(custom_prompt_template, tags, content, filename) ==
    LET prompt == format_prompt(custom_prompt_template, tags, content, filename)
    IN IF prompt.raised # "none" THEN <<>> ELSE <<[prompt |-> prompt.value]>>

\* api is what the LLM service does with the request: fails, or answers with a
\* completion
generate_tags(llm_provider_type, tags, custom_prompt_template, content, filename, api) ==
    LET prompt == format_prompt(custom_prompt_template, tags, content, filename)
    IN IF prompt.raised # "none" THEN Raise("LLMError", prompt.msg)
       ELSE IF ~api.ok THEN Raise("LLMError", "API error")
       ELSE IF llm_provider_type = "openai" /\ api.completion = <<>>
       THEN Raise("LLMError", "Empty response from OpenAI")
       ELSE LET parsed == parse_llm_response(api.completion, schema_keys(tags))
            IN IF parsed.raised # "none" THEN Raise("LLMError", parsed.msg) ELSE parsed

(***************************************************************************)
(* models.ObjectTags, models.TaggingResult                                 *)
(***************************************************************************)
create_object_tags_result(existing_tags, proposed_tags, applied_tags, skipped_reason) ==
    [existing |-> existing_tags, proposed |-> proposed_tags,
     applied |-> applied_tags, skipped_reason |-> skipped_reason]

\* a result that lists the newest record first
add_result_prepends(res, uri, tags) ==
    [res EXCEPT
        !.results = [k \in (DOMAIN res.results) \cup {uri} |->
                        IF k = uri THEN tags ELSE res.results[k]],
        !.order = IF uri \in DOMAIN res.results THEN res.order ELSE <<uri>> \o res.order]

\* TaggingResult.add_result: results[uri] = tags; a dict keeps insertion order
add_result(res, uri, tags) ==
    [res EXCEPT
        !.results = [k \in (DOMAIN res.results) \cup {uri} |->
                        IF k = uri THEN tags ELSE res.results[k]],
        !.order = IF uri \in DOMAIN res.results THEN res.order ELSE Append(res.order, uri)]

\* summary={}: a dict is a function of its keys
NoSummary == [k \in {} |-> 0]

\* success_rate is the fraction <<numerator, denominator>>
\* a summary that counts as processed the records without a skip reason
get_summary_stats_unskipped(res) ==
    LET total_objects == Cardinality(DOMAIN res.results)
        processed == Cardinality({k \in DOMAIN res.results : res.results[k].skipped_reason = None})
        skipped == Cardinality({k \in DOMAIN res.results : res.results[k].skipped_reason # None})
        applied == Cardinality({k \in DOMAIN res.results : res.results[k].applied # None})
    IN [total_objects |-> total_objects,
        processed |-> processed, skipped |-> skipped, applied |-> applied,
        success_rate |-> IF total_objects > 0 THEN <<processed, total_objects>> ELSE <<0, 1>>]

get_summary_stats(res) ==
    LET total_objects == Cardinality(DOMAIN res.results)
        processed == Cardinality({k \in DOMAIN res.results : res.results[k].proposed # None})
        skipped == Cardinality({k \in DOMAIN res.results : res.results[k].skipped_reason # None})
        applied == Cardinality({k \in DOMAIN res.results : res.results[k].applied # None})
    IN [total_objects |-> total_objects,
        processed |-> processed, skipped |-> skipped, applied |-> applied,
        success_rate |-> IF total_objects > 0 THEN <<processed, total_objects>> ELSE <<0, 1>>]

(***************************************************************************)
(* The bucket and the facades of the run specification.                    *)
(***************************************************************************)
ObjA == <<"a",".","t","x","t">>
ObjB == <<"b",".","J","S","O","N">>
ObjC == <<"c",".","b","i","n">>
ObjD == <<"R","E","A","D","M","E">>
ObjE == <<"e",".","m","d">>
ObjF == <<"f",".","t","x","t">>

AllObjects == <<ObjA, ObjB, ObjC, ObjE, ObjD>>

\* "Aé" in a.txt, "1" in b.JSON, "é" in e.md
Content(key) ==
    CASE key = ObjA -> <<65, 195, 169>>
      [] key = ObjB -> <<49>>
      [] key = ObjE -> <<195, 169>>
      [] OTHER -> <<>>

\* two schema keys, the second with allowed values
RunSchema ==
    <<[key |-> KeyName(1), allowed |-> None],
      [key |-> KeyName(2), allowed |-> Some(<<<<"y">>, <<"n">>>>)]>>

\* a.txt carries a schema key and another key; b.JSON is as full as the backend
\* allows; f.txt has room for the two schema keys and no more
InitialTags(provider, key) ==
    CASE key = ObjA -> [k \in {KeyName(1), KeyName(3)} |-> OldValue]
      [] key = ObjB -> [k \in Range(KeysFrom(3, limits[provider].max_tags)) |-> OldValue]
      [] key = ObjF -> [k \in Range(KeysFrom(3, limits[provider].max_tags - 2)) |-> OldValue]
      [] OTHER -> <<>>

Facades ==
    {SmartCloudTagger_init(a).value :
        a \in {c \in [storage_provider : Providers,
                      llm_provider : {"openai", "anthropic", "gemini"},
                      tags : {RunSchema},
                      max_bytes : {Some(ConfiguredMaxBytes)},
                      env : {GoodEnv},
                      custom_prompt_template : {None}] :
                  SmartCloudTagger_init(c).raised = "none"}}

\* what the LLM service may do with a request
Completions ==
    {<<"x", ",", " ", "y">>, <<"x">>, <<>>, <<"\"", " ", "\"", ",", "x">>}

ApiOutcomes ==
    {[ok |-> FALSE, completion |-> <<>>]} \cup {[ok |-> TRUE, completion |-> c] : c \in Completions}

NoLocals ==
    [existing_tags |-> <<>>, truncated_content |-> <<>>,
     proposed_tags |-> <<>>, final_tags |-> <<>>]

Init ==
    /\ fn = "none" /\ args = <<>> /\ ret = NotCalled /\ heap = NoHeap
    /\ self \in Facades
    /\ \E n \in 0..MaxObjects :
           bucket = SubSeq(AllObjects, 1, IF n < Len(AllObjects) THEN n ELSE Len(AllObjects))
    /\ stored = [k \in Range(bucket) |-> InitialTags(self.storage_provider_type, k)]
    /\ pc = "idle"
    /\ process_max_bytes = 0
    /\ objects = <<>>
    /\ idx = 0
    /\ loc = NoLocals
    /\ result = <<>>
    /\ calls = <<>>
    /\ outcome = NotCalled
    /\ runs = 0

(***************************************************************************)
(* core.SmartCloudTagger._process_objects, one action per backend call.    *)
(***************************************************************************)
Call(op, key, tags, err) == [op |-> op, key |-> key, tags |-> tags, err |-> err]

\* a call of llm_provider.generate_tags, with the completion the service gave
LLMCall(key, err, completion) ==
    [op |-> "generate_tags", key |-> key, tags |-> <<>>, err |-> err,
     completion |-> completion]

tag_keys == schema_keys(self.tags)

\* the branch that skips the write treats no run as a preview
is_preview_never(mode) == FALSE

\* mode == ProcessingMode.PREVIEW
is_preview(mode) == mode = "preview"

\* a handler that lets everything but storage failures through
caught_at_object_boundary_storage_only(kind) == kind = "StorageError"

\* except Exception as e, at the object boundary
caught_at_object_boundary(kind) == TRUE

unsupported_result ==
    create_object_tags_result(<<>>, None, None, Some(<<"Unsupported file type">>))

\* a record that drops the reason
processing_error_result_without_reason(msg) ==
    create_object_tags_result(<<>>, None, None, None)

processing_error_result(msg) ==
    create_object_tags_result(<<>>, None, None, Some(<<"Processing error: ", msg>>))

previewed_result(existing_tags, proposed_tags) ==
    create_object_tags_result(existing_tags, Some(proposed_tags), None, None)

\* a record that holds applied tags and a reason
applied_result_with_reason(existing_tags, proposed_tags, final_tags) ==
    create_object_tags_result(existing_tags, Some(proposed_tags), Some(final_tags),
                              Some(<<"Applied">>))

applied_result(existing_tags, proposed_tags, final_tags) ==
    create_object_tags_result(existing_tags, Some(proposed_tags), Some(final_tags), None)

\* a record that forgets the tags that were fetched
apply_failed_result_forgets_existing(existing_tags, proposed_tags, msg) ==
    create_object_tags_result(<<>>, Some(proposed_tags), None,
                              Some(<<"Failed to apply tags: ", msg>>))

\* a record that drops the proposal
apply_failed_result_forgets_proposed(existing_tags, proposed_tags, msg) ==
    create_object_tags_result(existing_tags, None, None,
                              Some(<<"Failed to apply tags: ", msg>>))

apply_failed_result(existing_tags, proposed_tags, msg) ==
    create_object_tags_result(existing_tags, Some(proposed_tags), None,
                              Some(<<"Failed to apply tags: ", msg>>))

\* a handler that returns instead of raising
wrap_run_failure_swallowed(msg) == Return("failed")

\* raise SmartCloudTagError(f"Failed to process objects: {str(e)}")
wrap_run_failure(msg) == Raise("SmartCloudTagError", msg)

\* result.add_result(obj_key, ...), then the next object, or the summary and return
AddResult(key, tags) ==
    /\ loc' = NoLocals
    /\ IF idx = Len(objects)
       THEN /\ result' = [add_result(result, key, tags) EXCEPT
                             !.summary = get_summary_stats(add_result(result, key, tags))]
            /\ pc' = "returned"
            /\ outcome' = Return(result.mode)
            /\ idx' = idx
       ELSE /\ result' = add_result(result, key, tags)
            /\ pc' = "is_supported"
            /\ outcome' = outcome
            /\ idx' = idx + 1

\* a loop body that tries the failed step again instead of leaving the object
ObjectFails_retry(key, exc) == UNCHANGED <<pc, outcome, result, idx, loc>>

\* an exception inside the loop body: the object's handler, else the run's
ObjectFails(key, exc) ==
    IF caught_at_object_boundary(exc.raised)
    THEN AddResult(key, processing_error_result(exc.msg))
    ELSE /\ pc' = "raised"
         /\ outcome' = wrap_run_failure(exc.msg)
         /\ UNCHANGED <<result, idx, loc>>

\* process_max_bytes = max_bytes or self.config.max_bytes, and the fresh result
BeginRun(mode, max_bytes) ==
    /\ runs' = runs + 1
    /\ process_max_bytes' =
           (IF max_bytes = None \/ max_bytes[1] = 0 THEN self.max_bytes ELSE max_bytes[1])
    /\ result' = [mode |-> mode, results |-> <<>>, order |-> <<>>, summary |-> NoSummary]
    /\ pc' = "list_objects"
    /\ objects' = <<>>
    /\ idx' = 0
    /\ loc' = NoLocals
    /\ calls' = <<>>
    /\ outcome' = NotCalled

StartRun(mode, max_bytes) ==
    /\ BeginRun(mode, max_bytes)
    /\ UNCHANGED <<fnVars, self, bucket, stored>>

Overrides == {None, Some(2)}

preview_tags ==
    /\ pc \in {"idle", "returned", "raised"}
    /\ runs < MaxRuns
    /\ \E max_bytes \in Overrides : StartRun("preview", max_bytes)

apply_tags ==
    /\ pc \in {"idle", "returned", "raised"}
    /\ runs < MaxRuns
    /\ \E max_bytes \in Overrides : StartRun("apply", max_bytes)

ListObjectsFails ==
    /\ pc = "list_objects"
    /\ calls' = Append(calls, Call("list_objects", <<>>, <<>>, "Failed to list objects"))
    /\ pc' = "raised"
    /\ outcome' = wrap_run_failure("Failed to list objects")
    /\ UNCHANGED <<fnVars, self, bucket, stored, process_max_bytes, objects, idx, loc,
                   result, runs>>

ListObjects ==
    /\ pc = "list_objects"
    /\ calls' = Append(calls, Call("list_objects", <<>>, <<>>, ""))
    /\ objects' = bucket
    /\ IF bucket = <<>>
       THEN /\ result' = [result EXCEPT
                             !.summary = [message |-> "No objects found in bucket"]]
            /\ pc' = "returned"
            /\ outcome' = Return(result.mode)
            /\ idx' = 0
       ELSE /\ pc' = "is_supported"
            /\ idx' = 1
            /\ UNCHANGED <<result, outcome>>
    /\ UNCHANGED <<fnVars, self, bucket, stored, process_max_bytes, loc, runs>>

Unsupported ==
    /\ pc = "is_supported"
    /\ ~is_supported_file_type(objects[idx])
    /\ AddResult(objects[idx], unsupported_result)
    /\ UNCHANGED <<fnVars, self, bucket, stored, process_max_bytes, objects, calls, runs>>

Supported ==
    /\ pc = "is_supported"
    /\ is_supported_file_type(objects[idx])
    /\ pc' = "get_object_tags"
    /\ UNCHANGED <<fnVars, self, bucket, stored, process_max_bytes, objects, idx, loc,
                   result, calls, outcome, runs>>

GetObjectTagsFails ==
    /\ pc = "get_object_tags"
    /\ calls' = Append(calls, Call("get_object_tags", objects[idx], <<>>,
                                   "Failed to get object tags"))
    /\ ObjectFails(objects[idx], Raise("StorageError", "Failed to get object tags"))
    /\ UNCHANGED <<fnVars, self, bucket, stored, process_max_bytes, objects, runs>>

GetObjectTags ==
    /\ pc = "get_object_tags"
    /\ LET existing_tags == get_object_tags(self.storage_provider_type, stored, objects[idx])
       IN /\ calls' = Append(calls, Call("get_object_tags", objects[idx], existing_tags, ""))
          /\ loc' = [loc EXCEPT !.existing_tags = existing_tags]
    /\ pc' = "get_object_content"
    /\ UNCHANGED <<fnVars, self, bucket, stored, process_max_bytes, objects, idx,
                   result, outcome, runs>>

GetObjectContentFails ==
    /\ pc = "get_object_content"
    /\ calls' = Append(calls, Call("get_object_content", objects[idx], <<>>,
                                   "Failed to get object content"))
    /\ ObjectFails(objects[idx], Raise("StorageError", "Failed to get object content"))
    /\ UNCHANGED <<fnVars, self, bucket, stored, process_max_bytes, objects, runs>>

\* get_object_content, then parse_file_content and truncate_content
GetObjectContent ==
    /\ pc = "get_object_content"
    /\ LET content_bytes == get_object_content(self.storage_provider_type,
                                               Content(objects[idx]), process_max_bytes)
           file_type == get_file_type(objects[idx])[1]
           text_content == parse_file_content(content_bytes, file_type)
           truncated_content == truncate_content(text_content.value, process_max_bytes)
       IN /\ calls' = calls \o
                 <<Call("get_object_content", objects[idx], <<>>, ""),
                   Call("parse_file_content", objects[idx], <<>>,
                        IF text_content.raised = "none" THEN "" ELSE text_content.msg)>>
          /\ IF text_content.raised # "none" THEN ObjectFails(objects[idx], text_content)
             ELSE IF truncated_content.raised # "none"
             THEN ObjectFails(objects[idx], truncated_content)
             ELSE /\ loc' = [loc EXCEPT !.truncated_content = truncated_content.value]
                  /\ pc' = "generate_tags"
                  /\ UNCHANGED <<result, idx, outcome>>
    /\ UNCHANGED <<fnVars, self, bucket, stored, process_max_bytes, objects, runs>>

\* llm_provider.generate_tags, create_tag_mapping, then the preview record or the merge
GenerateTags ==
    /\ pc = "generate_tags"
    /\ \E api \in ApiOutcomes :
         LET key == objects[idx]
             llm_response == generate_tags(self.llm_provider_type, self.tags,
                                           self.custom_prompt_template,
                                           loc.truncated_content, key, api)
             proposed_tags == create_tag_mapping(tag_keys, llm_response.value,
                                                 self.storage_provider_type)
             final_tags == merge_and_validate_tags(loc.existing_tags, proposed_tags.value,
                                                   tag_keys, self.storage_provider_type)
             generated == LLMCall(key,
                                  IF llm_response.raised = "none" THEN "" ELSE llm_response.msg,
                                  IF api.ok THEN Some(api.completion) ELSE None)
             merged == Call("merge_and_validate_tags", key, proposed_tags.value,
                            IF final_tags.raised = "none" THEN "" ELSE final_tags.msg)
         IN /\ calls' = IF llm_response.raised = "none" /\ proposed_tags.raised = "none"
                            /\ ~is_preview(result.mode)
                         THEN calls \o <<generated, merged>>
                         ELSE Append(calls, generated)
            /\ IF llm_response.raised # "none" THEN ObjectFails(key, llm_response)
               ELSE IF proposed_tags.raised # "none" THEN ObjectFails(key, proposed_tags)
               ELSE IF is_preview(result.mode)
               THEN AddResult(key, previewed_result(loc.existing_tags, proposed_tags.value))
               ELSE IF final_tags.raised # "none"
               THEN AddResult(key, apply_failed_result(loc.existing_tags,
                                                       proposed_tags.value, final_tags.msg))
               ELSE /\ loc' = [loc EXCEPT !.proposed_tags = proposed_tags.value,
                                          !.final_tags = final_tags.value]
                    /\ pc' = "set_object_tags"
                    /\ UNCHANGED <<result, idx, outcome>>
    /\ UNCHANGED <<fnVars, self, bucket, stored, process_max_bytes, objects, runs>>

\* AzureBlobProvider.set_object_tags cannot fail
SetObjectTagsFails ==
    /\ pc = "set_object_tags"
    /\ self.storage_provider_type # "azure"
    /\ calls' = Append(calls, Call("set_object_tags", objects[idx], loc.final_tags,
                                   "Failed to set object tags"))
    /\ AddResult(objects[idx], apply_failed_result(loc.existing_tags, loc.proposed_tags,
                                                   "Failed to set object tags"))
    /\ UNCHANGED <<fnVars, self, bucket, stored, process_max_bytes, objects, runs>>

SetObjectTags ==
    /\ pc = "set_object_tags"
    /\ calls' = Append(calls, Call("set_object_tags", objects[idx], loc.final_tags, ""))
    /\ stored' = set_object_tags(self.storage_provider_type, stored, objects[idx],
                                 loc.final_tags)
    /\ AddResult(objects[idx], applied_result(loc.existing_tags, loc.proposed_tags,
                                              loc.final_tags))
    /\ UNCHANGED <<fnVars, self, bucket, process_max_bytes, objects, runs>>

Next ==
    \/ preview_tags
    \/ apply_tags
    \/ ListObjectsFails
    \/ ListObjects
    \/ Unsupported
    \/ Supported
    \/ GetObjectTagsFails
    \/ GetObjectTags
    \/ GetObjectContentFails
    \/ GetObjectContent
    \/ GenerateTags
    \/ SetObjectTagsFails
    \/ SetObjectTags

Spec == Init /\ [][Next]_vars

(***************************************************************************)
(* apply_tags() called again and again on one facade.                      *)
(***************************************************************************)
MaxApplies == 2      \* apply_tags calls on one facade

RepeatBuckets == {<<ObjF>>, <<ObjA, ObjF>>, <<ObjB, ObjC, ObjA>>}

InitRepeat ==
    /\ fn = "none" /\ args = <<>> /\ ret = NotCalled /\ heap = NoHeap
    /\ self \in Facades
    /\ bucket \in RepeatBuckets
    /\ stored = [k \in Range(bucket) |-> InitialTags(self.storage_provider_type, k)]
    /\ pc = "idle"
    /\ process_max_bytes = 0
    /\ objects = <<>>
    /\ idx = 0
    /\ loc = NoLocals
    /\ result = <<>>
    /\ calls = <<>>
    /\ outcome = NotCalled
    /\ runs = 0

apply_tags_again ==
    /\ pc \in {"idle", "returned", "raised"}
    /\ runs < MaxApplies
    /\ \E max_bytes \in Overrides : StartRun("apply", max_bytes)

NextRepeat ==
    \/ apply_tags_again
    \/ ListObjectsFails
    \/ ListObjects
    \/ Unsupported
    \/ Supported
    \/ GetObjectTagsFails
    \/ GetObjectTags
    \/ GetObjectContentFails
    \/ GetObjectContent
    \/ GenerateTags
    \/ SetObjectTagsFails
    \/ SetObjectTags

SpecRepeat == InitRepeat /\ [][NextRepeat]_vars

(***************************************************************************)
(* Runs with any int as the max_bytes argument, on the backends that read  *)
(* a byte range; args keeps the argument of the run.                       *)
(***************************************************************************)
BudgetOverrides == {None, Some(-1), Some(0), Some(1), Some(2)}

BudgetBuckets == {<<ObjA, ObjE>>, <<ObjB, ObjC, ObjA>>}

InitBudget ==
    /\ fn = "none" /\ args = <<>> /\ ret = NotCalled /\ heap = NoHeap
    /\ self \in {f \in Facades : f.storage_provider_type \in {"aws", "gcp"}}
    /\ bucket \in BudgetBuckets
    /\ stored = [k \in Range(bucket) |-> InitialTags(self.storage_provider_type, k)]
    /\ pc = "idle"
    /\ process_max_bytes = 0
    /\ objects = <<>>
    /\ idx = 0
    /\ loc = NoLocals
    /\ result = <<>>
    /\ calls = <<>>
    /\ outcome = NotCalled
    /\ runs = 0

preview_tags_max_bytes ==
    /\ pc \in {"idle", "returned", "raised"}
    /\ runs < MaxRuns
    /\ \E max_bytes \in BudgetOverrides :
           /\ BeginRun("preview", max_bytes)
           /\ fn' = "preview_tags"
           /\ args' = [max_bytes |-> max_bytes]
    /\ UNCHANGED <<ret, heap, self, bucket, stored>>

apply_tags_max_bytes ==
    /\ pc \in {"idle", "returned", "raised"}
    /\ runs < MaxRuns
    /\ \E max_bytes \in BudgetOverrides :
           /\ BeginRun("apply", max_bytes)
           /\ fn' = "apply_tags"
           /\ args' = [max_bytes |-> max_bytes]
    /\ UNCHANGED <<ret, heap, self, bucket, stored>>

NextBudget ==
    \/ preview_tags_max_bytes
    \/ apply_tags_max_bytes
    \/ ListObjectsFails
    \/ ListObjects
    \/ Unsupported
    \/ Supported
    \/ GetObjectTagsFails
    \/ GetObjectTags
    \/ GetObjectContentFails
    \/ GetObjectContent
    \/ GenerateTags
    \/ SetObjectTagsFails
    \/ SetObjectTags

SpecBudget == InitBudget /\ [][NextBudget]_vars

(***************************************************************************)
(* Claims about a run.                                                     *)
(***************************************************************************)
RunStarted == pc # "idle"

Records == DOMAIN result.results

CallsOf(op, key) == {n \in 1..Len(calls) : calls[n].op = op /\ calls[n].key = key}

Listed == Len(calls) >= 1 /\ calls[1].op = "list_objects" /\ calls[1].err = ""

\* C1: in a preview_tags() run, whatever the objects and whatever the storage and
\* LLM calls do, set_object_tags is never invoked, the returned result has mode
\* preview, and every record has applied = None.
C1_PreviewNeverWrites ==
    (RunStarted /\ result.mode = "preview") =>
        /\ \A n \in 1..Len(calls) : calls[n].op # "set_object_tags"
        /\ \A k \in Records : result.results[k].applied = None
        /\ pc = "returned" => outcome = Return("preview")

\* a preview that returned with a proposal for one object and a skip for another
C1_Witness ==
    /\ pc = "returned"
    /\ result.mode = "preview"
    /\ \E k \in Records : result.results[k].proposed # None
    /\ \E k \in Records : result.results[k].skipped_reason # None

\* C2: once list_objects has succeeded, a failure at a step of one object never
\* aborts the run: no exception leaves _process_objects, the records are those of
\* the objects handled so far, in order, and at return there is a record for every
\* enumerated key and for no other.
C2_ObjectFailureNeverAborts ==
    (RunStarted /\ Listed) =>
        /\ pc # "raised"
        /\ outcome \in {NotCalled, Return(result.mode)}
        /\ pc \notin {"returned", "list_objects"} => result.order = SubSeq(objects, 1, idx - 1)
        /\ pc = "returned" => /\ result.order = objects
                              /\ Records = Range(objects)
                              /\ outcome = Return(result.mode)

\* a run that returned although an object failed, with a later object processed
C2_Witness ==
    /\ pc = "returned"
    /\ \E m, n \in 1..Len(objects) :
          /\ m < n
          /\ result.results[objects[m]].skipped_reason # None
          /\ result.results[objects[m]].skipped_reason[1][1] = "Processing error: "
          /\ result.results[objects[n]].proposed # None

Fetched(key) == calls[CHOOSE n \in CallsOf("get_object_tags", key) : TRUE].tags

WriteFailed(key) == \E n \in CallsOf("set_object_tags", key) : calls[n].err # ""

MergeFailed(key) == \E n \in CallsOf("merge_and_validate_tags", key) : calls[n].err # ""

\* the detail of the merge or write that failed for key
FailureDetail(key) ==
    calls[CHOOSE n \in CallsOf("set_object_tags", key) \cup
                       CallsOf("merge_and_validate_tags", key) : calls[n].err # ""].err

\* the reason is the detail, or begins with it
StartsWithDetail(reason, detail) == reason # None /\ reason[1][1] = detail

\* the reason is "Failed to apply tags: " followed by the detail
PrefixedDetail(reason, detail) == reason = Some(<<"Failed to apply tags: ", detail>>)

ApplyRecords(ReasonHolds(_, _)) ==
    (RunStarted /\ result.mode = "apply") =>
        \A k \in Records :
            LET r == result.results[k]
            IN /\ r.applied # None <=>
                      \E n \in CallsOf("set_object_tags", k) : calls[n].err = ""
               /\ r.applied # None =>
                      \A n \in CallsOf("set_object_tags", k) : calls[n].tags = r.applied[1]
               /\ (MergeFailed(k) \/ WriteFailed(k)) =>
                      /\ r.applied = None
                      /\ ReasonHolds(r.skipped_reason, FailureDetail(k))
                      /\ r.existing = Fetched(k)
                      /\ r.proposed # None
                      /\ \A n \in CallsOf("merge_and_validate_tags", k) :
                             r.proposed[1] = calls[n].tags

\* C3 as stated: in an apply_tags() run a record has applied # None exactly when
\* set_object_tags was invoked for the object and returned, applied being the mapping
\* passed; when the merge or the write fails the record has applied = None, the
\* fetched existing tags, the proposed tags, and a skip reason that starts with the
\* failure detail.
C3_ReasonStartsWithDetail == ApplyRecords(StartsWithDetail)

\* C3, amended: as above, the skip reason being "Failed to apply tags: " followed by
\* the failure detail.
C3_AppliedIffWritten == ApplyRecords(PrefixedDetail)

\* an apply that returned with one object written, one whose write failed and one
\* whose merge failed
C3_Witness ==
    /\ pc = "returned"
    /\ result.mode = "apply"
    /\ \E k \in Records : result.results[k].applied # None
    /\ \E k \in Records : WriteFailed(k) /\ result.results[k].existing # <<>>
    /\ \E k \in Records : MergeFailed(k)

(***************************************************************************)
(* Claims about the summary of a returned result.                          *)
(***************************************************************************)
Returned == pc = "returned"

StatKeys == {"total_objects", "processed", "skipped", "applied", "success_rate"}

CountOf(P(_)) == Cardinality({k \in Records : P(result.results[k])})

HasProposed(r) == r.proposed # None

HasReason(r) == r.skipped_reason # None

HasApplied(r) == r.applied # None

\* the summary holds the four counts of the records and the rate processed / total,
\* 0 when there is no record
SummaryCounts ==
    /\ StatKeys \subseteq DOMAIN result.summary
    /\ result.summary.total_objects = Cardinality(Records)
    /\ result.summary.processed = CountOf(HasProposed)
    /\ result.summary.skipped = CountOf(HasReason)
    /\ result.summary.applied = CountOf(HasApplied)
    /\ LET rate == result.summary.success_rate
       IN IF Cardinality(Records) = 0 THEN rate[1] = 0
          ELSE rate[1] * Cardinality(Records) = CountOf(HasProposed) * rate[2]

\* C11: every result returned by preview_tags() or apply_tags() carries a summary
\* with the counts total_objects, processed, skipped, applied and success_rate =
\* processed / total_objects, 0 when there is no object, the run over a bucket that
\* enumerates no objects included.
C11_SummaryOnEveryResult == Returned => SummaryCounts

\* C11 for the results of runs that enumerated at least one object
C11_SummaryWhenObjectsFound == (Returned /\ objects # <<>>) => SummaryCounts

\* a run over several objects that returned with proposals and skips
C11_Witness ==
    /\ Returned
    /\ Cardinality(Records) >= 2
    /\ CountOf(HasProposed) >= 1
    /\ CountOf(HasReason) >= 1
    /\ result.summary.success_rate[1] < result.summary.success_rate[2]

\* the run over an empty bucket: the summary is the message alone
C11_EmptyBucketSummary ==
    (Returned /\ objects = <<>>) => DOMAIN result.summary = {"message"}

(***************************************************************************)
(* Claims about the objects a run skips.                                   *)
(***************************************************************************)
DecodeFailed(key) == \E n \in CallsOf("parse_file_content", key) : calls[n].err # ""

\* a reason is the sequence of the parts of its text
NonEmptyReason(reason) == reason # None /\ reason[1] # <<>> /\ reason[1][1] # ""

\* C12: in either mode a supported object whose content fails to decode for its
\* kind has a record with proposed = None, applied = None, existing = {} and a
\* non-empty skip reason; generate_tags and set_object_tags are not called for it;
\* the summary counts it as skipped and not as applied.
C12_DecodeFailureSkips ==
    RunStarted =>
        \A k \in Range(objects) :
            DecodeFailed(k) =>
                /\ is_supported_file_type(k)
                /\ k \in Records
                /\ result.results[k].proposed = None
                /\ result.results[k].applied = None
                /\ result.results[k].existing = <<>>
                /\ NonEmptyReason(result.results[k].skipped_reason)
                /\ CallsOf("generate_tags", k) = {}
                /\ CallsOf("set_object_tags", k) = {}
                /\ Returned =>
                      /\ result.summary.skipped =
                             Cardinality({j \in Records : HasReason(result.results[j])})
                      /\ result.summary.applied =
                             Cardinality({j \in Records \ {k} : HasApplied(result.results[j])})

\* an apply run that returned, with an object whose fetched tags were not empty and
\* whose content did not decode, and another object written
C12_Witness ==
    /\ Returned
    /\ result.mode = "apply"
    /\ \E k \in Records : DecodeFailed(k) /\ Fetched(k) # <<>>
    /\ result.summary.applied >= 1

\* the merge of the proposed tags of key into its existing tags exceeded max_tags
MergeOverflowed(key) ==
    \E n \in CallsOf("merge_and_validate_tags", key) :
        calls[n].err = "Total tags would exceed the limit"

\* C13: in Apply mode, for an object whose proposed tags were computed but whose
\* merged tag count exceeds the backend's max_tags, set_object_tags is never called
\* (the stored tags are the fetched ones) and the record has applied = None, a
\* non-empty skip reason and the proposed tags.
C13_MergeOverflowWritesNothing ==
    (RunStarted /\ result.mode = "apply") =>
        \A k \in Range(objects) :
            MergeOverflowed(k) =>
                /\ CallsOf("set_object_tags", k) = {}
                /\ stored[k] = Fetched(k)
                /\ k \in Records
                /\ result.results[k].applied = None
                /\ NonEmptyReason(result.results[k].skipped_reason)
                /\ result.results[k].proposed # None
                /\ DOMAIN result.results[k].proposed[1] = Range(tag_keys)
                /\ \A n \in CallsOf("merge_and_validate_tags", k) :
                       /\ result.results[k].proposed[1] = calls[n].tags
                       /\ Cardinality(DOMAIN overlay(Fetched(k), calls[n].tags, tag_keys))
                              > limits[self.storage_provider_type].max_tags

\* an apply run that returned with an object as full as the backend allows skipped
\* by the merge and another object written
C13_Witness ==
    /\ Returned
    /\ result.mode = "apply"
    /\ \E k \in Records :
          /\ MergeOverflowed(k)
          /\ Cardinality(DOMAIN stored[k]) = limits[self.storage_provider_type].max_tags
    /\ \E k \in Records : result.results[k].applied # None

(***************************************************************************)
(* Claims about the failures of a run and of construction.                 *)
(***************************************************************************)
ListFailed == Len(calls) >= 1 /\ calls[1].op = "list_objects" /\ calls[1].err # ""

\* C14: if enumerating the bucket's objects fails the whole run aborts:
\* preview_tags() / apply_tags() raise SmartCloudTagError, no result is returned,
\* and no object is read, sent to the LLM or written.
C14_ListFailureAbortsRun ==
    (RunStarted /\ ListFailed) =>
        /\ pc = "raised"
        /\ outcome.raised = "SmartCloudTagError"
        /\ outcome.value = <<>>
        /\ Len(calls) = 1
        /\ Records = {}
        /\ objects = <<>>

\* a run over a bucket that holds objects, aborted by the enumeration
C14_Witness ==
    /\ pc = "raised"
    /\ ListFailed
    /\ Len(bucket) >= 2

\* C15: every failure of facade construction (unknown storage or LLM backend kind,
\* invalid tag schema, non-positive max bytes, missing storage credentials or API
\* key, unavailable backend) surfaces to the caller as ConfigurationError, and no
\* facade results.
C15_ConstructionFailsAsConfigurationError ==
    (ConstructCalled /\ ret.raised # "none") =>
        /\ ret.raised = "ConfigurationError"
        /\ ret.value = <<>>

\* the failures of construction that do surface as ConfigurationError: an unknown
\* backend kind and, for a configuration TaggingConfig accepts, what
\* validate_tagging_config rejects
C15_WrappedFailures ==
    ConstructCalled =>
        LET sp == lower(args.storage_provider)
            lp == lower(args.llm_provider)
        IN /\ (sp \notin Providers \/ lp \notin {"openai", "anthropic", "gemini"})
                  => ret.raised = "ConfigurationError"
           /\ (/\ sp \in Providers
               /\ lp \in {"openai", "anthropic", "gemini"}
               /\ TaggingConfig(args.tags, args.max_bytes).raised = "none"
               /\ validate_tagging_config(args.tags, sp).raised # "none")
                  => ret.raised = "ConfigurationError"

\* the LLM service answered the request for key with an empty completion
EmptyCompletion(key) ==
    \E n \in CallsOf("generate_tags", key) : calls[n].completion = Some(<<>>)

ProcessingErrorSkip(r) ==
    /\ r.existing = <<>>
    /\ r.proposed = None
    /\ r.applied = None
    /\ r.skipped_reason # None
    /\ r.skipped_reason[1][1] = "Processing error: "

\* C16: for each of the three LLM backends an empty completion is an LLMError: the
\* object is recorded as a processing-error skip with proposed = None, and in
\* Apply mode nothing is written for it.
C16_EmptyCompletionIsError ==
    RunStarted =>
        \A k \in Range(objects) :
            EmptyCompletion(k) =>
                /\ k \in Records
                /\ ProcessingErrorSkip(result.results[k])
                /\ CallsOf("set_object_tags", k) = {}

\* C16 for the OpenAI backend alone
C16_OpenAIEmptyCompletionIsError ==
    (RunStarted /\ self.llm_provider_type = "openai") =>
        \A k \in Range(objects) :
            EmptyCompletion(k) =>
                /\ k \in Records
                /\ ProcessingErrorSkip(result.results[k])
                /\ CallsOf("set_object_tags", k) = {}

\* with the Anthropic and Gemini backends an empty completion is parsed: every
\* schema key is proposed as "general"
C16_OtherBackendsPadEmptyCompletion ==
    (RunStarted /\ self.llm_provider_type # "openai") =>
        \A k \in Range(objects) :
            EmptyCompletion(k) =>
                /\ k \in Records => result.results[k].proposed = Some([t \in Range(tag_keys) |-> general])
                /\ \A n \in CallsOf("set_object_tags", k) :
                       \A t \in Range(tag_keys) : calls[n].tags[t] = general

(***************************************************************************)
(* Claims about the schema keys, under SpecValidateConfig.                 *)
(***************************************************************************)
\* the characters of [A-Za-z0-9_-]
KeyChars == (AlnumChars \ {"é"}) \cup {"-", "_"}

KeyOutsideRules(key, provider) ==
    \/ is_blank(key)
    \/ Len(key) > limits[provider].max_key
    \/ \E i \in 1..Len(key) : key[i] \notin KeyChars

KeyWithinRules(key, provider) ==
    /\ key # <<>>
    /\ Len(key) <= limits[provider].max_key
    /\ \A i \in 1..Len(key) : key[i] \in KeyChars

CountAllowed == args.provider \in Providers /\ Len(args.tags) < limits[args.provider].max_tags

\* C17: validate_tagging_config rejects with SchemaValidationError every schema key
\* that is empty or blank, longer than the backend's max-key-length, or holds a
\* character outside [A-Za-z0-9_-], and accepts every non-empty key of length <=
\* max-key-length made only of characters of [A-Za-z0-9_-].
C17_KeyRules ==
    (ValidateConfigCalled /\ CountAllowed) =>
        LET keys == schema_keys(args.tags)
        IN /\ (\E i \in 1..Len(keys) : KeyOutsideRules(keys[i], args.provider))
                  => ret.raised = "SchemaValidationError"
           /\ (\A i \in 1..Len(keys) : KeyWithinRules(keys[i], args.provider))
                  => ret.raised = "none"

\* what the code does: a key is accepted exactly when it is not blank, no longer than
\* max-key-length and, once its "-" and "_" are removed, non-empty and alphanumeric
\* in the sense of str.isalnum
C17_KeyRulesOfTheCode ==
    (ValidateConfigCalled /\ CountAllowed) =>
        LET keys == schema_keys(args.tags)
        IN ret.raised = "none" <=>
               \A i \in 1..Len(keys) :
                   /\ ~is_blank(keys[i])
                   /\ Len(keys[i]) <= limits[args.provider].max_key
                   /\ isalnum(without_dash_underscore(keys[i]))

(***************************************************************************)
(* format_custom_llm_prompt and generate_tags applied to custom templates.  *)
(***************************************************************************)
MaxTemplateLen == 4

RECURSIVE TemplatesUpTo(_)
TemplatesUpTo(n) ==
    IF n = 0 THEN {<<>>}
    ELSE TemplatesUpTo(n - 1) \cup
         {Append(t, k) : t \in {u \in TemplatesUpTo(n - 1) : Len(u) = n - 1},
                         k \in TemplateTokens}

\* "Aé", and a content that spells a replacement field
PromptContents == {<<65, 233>>, <<123, 116, 97, 103, 115, 125>>}

PromptInputs ==
    {[custom_template |-> t, tags |-> RunSchema, content |-> c, filename |-> ObjA,
      llm_provider |-> lp, api |-> a] :
        t \in TemplatesUpTo(MaxTemplateLen),
        c \in PromptContents,
        lp \in {"openai", "anthropic"},
        a \in {[ok |-> FALSE, completion |-> <<>>],
               [ok |-> TRUE, completion |-> <<"x", ",", " ", "y">>]}}

InitPrompt ==
    /\ fn \in {"format_custom_llm_prompt", "generate_tags"}
    /\ args \in PromptInputs
    /\ fn = "format_custom_llm_prompt" =>
           args.llm_provider = "openai" /\ ~args.api.ok
    /\ ret = NotCalled
    /\ heap = NoHeap
    /\ NoRun

CallFormatCustomPrompt ==
    /\ fn = "format_custom_llm_prompt"
    /\ ret.raised = "pending"
    /\ ret' = format_custom_llm_prompt(args.custom_template, args.tags, args.content,
                                       args.filename)
    /\ UNCHANGED <<fn, args, heap, runVars>>

\* generate_tags of a provider, with the requests it sent in calls
CallGenerateTags ==
    /\ fn = "generate_tags"
    /\ ret.raised = "pending"
    /\ ret' = generate_tags(args.llm_provider, args.tags, Some(args.custom_template),
                            args.content, args.filename, args.api)
    /\ calls' = api_requests(Some(args.custom_template), args.tags, args.content,
                             args.filename)
    /\ UNCHANGED <<fn, args, heap, self, bucket, stored, pc, process_max_bytes, objects,
                   idx, loc, result, outcome, runs>>

NextPrompt == CallFormatCustomPrompt \/ CallGenerateTags

SpecPrompt == InitPrompt /\ [][NextPrompt]_vars

(***************************************************************************)
(* Claims about custom templates, under SpecPrompt.                        *)
(***************************************************************************)
PromptCalled == fn \in {"format_custom_llm_prompt", "generate_tags"} /\ ret.raised # "pending"

\* the tokens of {tags}, {content}, {filename} the template does not hold
MissingTokens ==
    {ph \in Range(required_placeholders) : ~contains(args.custom_template, ph)}

\* the template with the three tokens replaced by the schema, the content and the name
Substituted ==
    [i \in 1..Len(args.custom_template) |->
        CASE args.custom_template[i] = "{tags}" -> [tags |-> args.tags]
          [] args.custom_template[i] = "{content}" -> [content |-> args.content]
          [] args.custom_template[i] = "{filename}" -> [filename |-> args.filename]
          [] OTHER -> [text |-> args.custom_template[i]]]

\* a template is missing a token: the error names the missing tokens, and
\* generate_tags, given the template (an empty template counts as none), fails
\* without a request to the LLM service
MissingTokenFails ==
    (PromptCalled /\ MissingTokens # {}) =>
        /\ fn = "format_custom_llm_prompt" =>
               /\ ret.raised = "ValueError"
               /\ Range(ret.msg[2]) = MissingTokens
        /\ (fn = "generate_tags" /\ args.custom_template # <<>>) =>
               /\ ret.raised = "LLMError"
               /\ Range(ret.msg[2]) = MissingTokens
               /\ calls = <<>>

\* a template that holds the three tokens is returned with the tokens replaced
AllTokensSubstituted ==
    (PromptCalled /\ MissingTokens = {} /\ fn = "format_custom_llm_prompt") =>
        /\ ret.raised = "none"
        /\ ret.value = Substituted

\* C18: format_custom_llm_prompt fails with a validation error whose message names
\* exactly the missing tokens whenever the template lacks any of {tags}, {content},
\* {filename}, and then no LLM call is made; when all three are present it returns
\* the template with the three tokens replaced by the schema, the decoded content
\* and the object name.
C18_CustomPromptContract == MissingTokenFails /\ AllTokensSubstituted

\* the first half of C18
C18_MissingTokensNamed == MissingTokenFails

\* what the code returns when the three tokens are present: str.format raises on
\* any other replacement field and unescapes doubled braces
C18_FormatOfTheCode ==
    (PromptCalled /\ MissingTokens = {} /\ fn = "format_custom_llm_prompt") =>
        IF "{other}" \in Range(args.custom_template)
        THEN ret.raised = "KeyError"
        ELSE /\ ret.raised = "none"
             /\ \A i \in 1..Len(args.custom_template) :
                    ret.value[i] = IF args.custom_template[i] = "{{tags}}"
                                   THEN [text |-> "{tags}"]
                                   ELSE Substituted[i]

(***************************************************************************)
(* Claims about the values and the shapes of the records of a run.         *)
(***************************************************************************)
\* the mapping gives every schema key that lists allowed values one of them
WithinAllowed(mapping) ==
    \A i \in 1..Len(self.tags) :
        self.tags[i].allowed # None =>
            mapping[self.tags[i].key] \in Range(self.tags[i].allowed[1])

\* C19: for every schema key that lists allowed values, the value recorded as
\* proposed (and, in Apply mode, written and recorded as applied) for that key is
\* one of the key's allowed values, whatever text the LLM returned.
C19_ValuesWithinAllowed ==
    RunStarted =>
        /\ \A k \in Records :
               /\ result.results[k].proposed # None =>
                      WithinAllowed(result.results[k].proposed[1])
               /\ result.results[k].applied # None =>
                      WithinAllowed(result.results[k].applied[1])
        /\ \A n \in 1..Len(calls) :
               calls[n].op = "set_object_tags" => WithinAllowed(calls[n].tags)

\* what the code guarantees for a proposed value: it is the stripped, non-blank text
\* the parse of the completion gave for the key
C19_ValuesOfTheCode ==
    RunStarted =>
        \A k \in Records :
            result.results[k].proposed # None =>
                /\ DOMAIN result.results[k].proposed[1] = Range(tag_keys)
                /\ \A t \in Range(tag_keys) :
                       /\ ~is_blank(result.results[k].proposed[1][t])
                       /\ \A n \in CallsOf("generate_tags", k) :
                              \E i \in 1..Len(tag_keys) :
                                  /\ tag_keys[i] = t
                                  /\ result.results[k].proposed[1][t] =
                                         strip(parse_llm_response(calls[n].completion[1],
                                                                  tag_keys).value[i],
                                               Whitespace)

UnsupportedSkip(r) ==
    /\ r.existing = <<>>
    /\ r.proposed = None
    /\ r.applied = None
    /\ r.skipped_reason = Some(<<"Unsupported file type">>)

Previewed(r) ==
    /\ r.proposed # None
    /\ r.applied = None
    /\ r.skipped_reason = None
    /\ result.mode = "preview"

ApplyFailedSkip(r) ==
    /\ r.proposed # None
    /\ r.applied = None
    /\ r.skipped_reason # None
    /\ result.mode = "apply"

Applied(r) ==
    /\ r.proposed # None
    /\ r.applied # None
    /\ r.skipped_reason = None
    /\ result.mode = "apply"

ShapesOf(r) ==
    {n \in 1..5 : CASE n = 1 -> UnsupportedSkip(r)
                    [] n = 2 -> ProcessingErrorSkip(r)
                    [] n = 3 -> Previewed(r)
                    [] n = 4 -> ApplyFailedSkip(r)
                    [] n = 5 -> Applied(r)}

\* C20: every record of every result has exactly one of five shapes:
\* unsupported-skip, processing-error-skip (existing = {} even if tags had been
\* fetched), previewed (Preview mode only), apply-failed-skip and applied (Apply mode
\* only); no record has both a skip reason and applied tags, and applied # None
\* implies proposed # None.
C20_FiveRecordShapes ==
    RunStarted =>
        \A k \in Records :
            LET r == result.results[k]
            IN /\ Cardinality(ShapesOf(r)) = 1
               /\ ~(r.skipped_reason # None /\ r.applied # None)
               /\ r.applied # None => r.proposed # None
               /\ UnsupportedSkip(r) <=> ~is_supported_file_type(k)

\* an apply run that returned with an unsupported object, an object whose tags were
\* fetched before its processing failed, an object whose apply failed and an object
\* written
C20_Witness ==
    /\ Returned
    /\ result.mode = "apply"
    /\ \E k \in Records : UnsupportedSkip(result.results[k])
    /\ \E k \in Records : /\ ProcessingErrorSkip(result.results[k])
                          /\ CallsOf("get_object_tags", k) # {}
                          /\ Fetched(k) # <<>>
    /\ \E k \in Records : ApplyFailedSkip(result.results[k])
    /\ \E k \in Records : Applied(result.results[k])

(***************************************************************************)
(* The order of the backend calls made for one object.                     *)
(***************************************************************************)
BackendSteps == <<"get_object_tags", "get_object_content", "generate_tags", "set_object_tags">>

\* every step the loop body takes for an object, the two local ones included
ObjectSteps ==
    <<"get_object_tags", "get_object_content", "parse_file_content", "generate_tags",
      "merge_and_validate_tags", "set_object_tags">>

StepIndex(op) == CHOOSE s \in 1..Len(ObjectSteps) : ObjectSteps[s] = op

\* the steps logged for key, in the order they were taken
StepsOf(key) ==
    {n \in 1..Len(calls) : calls[n].key = key /\ calls[n].op \in Range(ObjectSteps)}

\* the chain for key reached step op and that step succeeded
Succeeded(op, key) == \E n \in CallsOf(op, key) : calls[n].err = ""

\* C21: within one run, the backend calls for a supported object happen in the
\* order get_object_tags, get_object_content, generate_tags and, in an apply run
\* only, set_object_tags; each is invoked at most once for the object, and a step
\* is invoked only when every earlier step for that object has succeeded.
C21_BackendCallOrder ==
    \A key \in Range(objects) :
        /\ \A s \in 1..Len(BackendSteps) : Cardinality(CallsOf(BackendSteps[s], key)) <= 1
        /\ \A m, n \in StepsOf(key) :
               m < n => /\ StepIndex(calls[m].op) < StepIndex(calls[n].op)
                        /\ calls[m].err = ""
        /\ \A s \in 2..Len(BackendSteps) :
               CallsOf(BackendSteps[s], key) # {} => Succeeded(BackendSteps[s - 1], key)
        /\ CallsOf("set_object_tags", key) # {} =>
               /\ result.mode = "apply"
               /\ Succeeded("merge_and_validate_tags", key)
        /\ CallsOf("get_object_tags", key) # {} => is_supported_file_type(key)

\* an apply run that took one object through all four calls and stopped the chain
\* of another object at its failed first call
C21_Witness ==
    /\ Returned
    /\ result.mode = "apply"
    /\ \E key \in Range(objects) :
           \A s \in 1..Len(BackendSteps) : Succeeded(BackendSteps[s], key)
    /\ \E key \in Range(objects) :
           /\ \E n \in CallsOf("get_object_tags", key) : calls[n].err # ""
           /\ CallsOf("get_object_content", key) = {}

(***************************************************************************)
(* Objects are processed one after another, in enumeration order.          *)
(***************************************************************************)
\* the place of key in the enumeration
PositionOf(key) == CHOOSE j \in 1..Len(objects) : objects[j] = key

\* the entries a step appends to the log of the running run
NewCalls ==
    IF Len(calls') > Len(calls)
    THEN {calls'[n] : n \in (Len(calls) + 1)..Len(calls')}
    ELSE {}

\* the records are those of the first objects enumerated, in that order
RecordsInEnumerationOrder ==
    RunStarted =>
        /\ Len(result.order) <= Len(objects)
        /\ result.order = SubSeq(objects, 1, Len(result.order))
        /\ Range(result.order) = Records
        /\ \A m, n \in 1..Len(calls) :
               (m < n /\ calls[m].op # "list_objects") =>
                   PositionOf(calls[m].key) <= PositionOf(calls[n].key)

\* a step that calls a backend for an object finds the record of every object
\* enumerated before it already in the result
CallsAfterEarlierRecords ==
    \A c \in NewCalls :
        c.op # "list_objects" =>
            \A j \in 1..(PositionOf(c.key) - 1) : objects[j] \in Records

\* C22: objects are processed strictly one after another in enumeration order: no
\* storage or LLM call for an object is made before the record of the object
\* enumerated before it has been added to the result, and the records of the
\* result appear in enumeration order.
C22_OneObjectAtATime == []RecordsInEnumerationOrder /\ [][CallsAfterEarlierRecords]_vars

\* a finished run over three objects or more, two of them with backend calls
C22_Witness ==
    /\ Returned
    /\ Len(objects) >= 3
    /\ result.order = objects
    /\ \E j, k \in 1..Len(objects) :
           /\ j < k
           /\ CallsOf("get_object_tags", objects[j]) # {}
           /\ CallsOf("generate_tags", objects[k]) # {}

(***************************************************************************)
(* Objects whose file kind is not recognised.                              *)
(***************************************************************************)
\* the name ends in a dot followed by txt, md, json or csv in any letter case
RecognizedKind(name) ==
    \E d \in 1..Len(name) :
        /\ name[d] = "."
        /\ \A n \in (d + 1)..Len(name) : name[n] # "."
        /\ \E ext \in {<<"t","x","t">>, <<"m","d">>, <<"j","s","o","n">>, <<"c","s","v">>} :
               /\ Len(ext) = Len(name) - d
               /\ \A n \in 1..Len(ext) :
                      \/ name[d + n] = ext[n]
                      \/ \E j \in 1..26 : UpperCase[j] = name[d + n] /\ LowerCase[j] = ext[n]

\* names with no extension, an unknown one, a known one in other letter cases, a
\* known one that is not the last
ProbeNames ==
    Range(AllObjects) \cup
    {<<"a",".","T","x","T">>, <<"a",".","M","D">>, <<"a",".","c","s","v">>,
     <<"a",".","t","x","t",".","g","z">>, <<"a",".","g","z",".","m","d">>,
     <<".","c","s","v">>, <<"t","x","t">>, <<"a",".">>, <<"a",".","t","x","t","x">>,
     <<"a",".","t","x">>, <<>>}

\* C23: for an object whose file kind is not recognised (its extension is not txt,
\* md, json or csv in any letter case, or it has none), a run in either mode
\* invokes none of get_object_tags, get_object_content, the LLM and
\* set_object_tags for it, leaves its stored tags as they were, and records it as
\* the unsupported skip.  The test of the name depends on the name alone and is
\* compared with the rule before the run starts.
C23_UnsupportedUntouched ==
    /\ ~RunStarted =>
           \A name \in ProbeNames : is_supported_file_type(name) <=> RecognizedKind(name)
    /\ RunStarted =>
           \A key \in Range(objects) :
               ~RecognizedKind(key) =>
                   /\ \A n \in 1..Len(calls) : calls[n].key # key
                   /\ stored[key] = InitialTags(self.storage_provider_type, key)
                   /\ key \in Records => UnsupportedSkip(result.results[key])
                   /\ (Returned \/ PositionOf(key) < idx) => key \in Records

\* an apply run that wrote tags on another object and skipped c.bin
C23_Witness ==
    /\ Returned
    /\ result.mode = "apply"
    /\ ObjC \in Records
    /\ UnsupportedSkip(result.results[ObjC])
    /\ \E key \in Records : Applied(result.results[key]) /\ stored[key] # InitialTags(self.storage_provider_type, key)

(***************************************************************************)
(* Plain text and markdown larger than the byte budget.                    *)
(***************************************************************************)
PlainText(key) == get_file_type(key) \in {Some(<<"t","x","t">>), Some(<<"m","d">>)}

ValidUtf8(bytes) == utf8_decode(bytes, "strict").raised = "none"

\* C24: for a supported plain-text or markdown object whose whole content is valid
\* UTF-8, a run never records a decode failure, whatever the size of the content
\* against the byte budget: content over the budget, a character straddling the
\* budget included, reaches the prompt as its longest prefix of whole characters
\* within the budget.
C24_ValidTextNeverFailsDecode ==
    RunStarted =>
        \A key \in Range(objects) :
            (PlainText(key) /\ ValidUtf8(Content(key))) =>
                /\ ~DecodeFailed(key)
                /\ (pc = "generate_tags" /\ objects[idx] = key) =>
                       loc.truncated_content =
                           LongestPrefixWithin(utf8_decode(Content(key), "strict").value,
                                               process_max_bytes)

\* what the code does: the decode fails exactly when the bytes fetched, the first
\* process_max_bytes of the object, are not valid UTF-8 by themselves, and content
\* that decodes reaches the prompt as the longest prefix within the budget
C24_DecodeOfTheFetchedBytes ==
    RunStarted =>
        \A key \in Range(objects) :
            PlainText(key) =>
                /\ DecodeFailed(key) <=>
                       /\ CallsOf("parse_file_content", key) # {}
                       /\ ~ValidUtf8(first_bytes(Content(key), process_max_bytes))
                /\ (pc = "generate_tags" /\ objects[idx] = key) =>
                       loc.truncated_content =
                           LongestPrefixWithin(
                               utf8_decode(first_bytes(Content(key), process_max_bytes),
                                           "strict").value,
                               process_max_bytes)

(***************************************************************************)
(* The order of the checks of merge_and_validate_tags, under SpecMerge.    *)
(***************************************************************************)
\* some tag on the object has an empty or blank key or value, or one over the limits
FaultyExisting(tags, provider) ==
    \E k \in DOMAIN tags :
        \/ is_blank(k) \/ Len(k) > limits[provider].max_key
        \/ is_blank(tags[k]) \/ Len(tags[k]) > limits[provider].max_value

ExistingTagMessages ==
    {"Tag key cannot be empty", "Tag key exceeds character limit",
     "Tag value cannot be empty", "Tag value exceeds character limit",
     "Object has too many tags"}

\* C25: merge_and_validate_tags checks the existing tags, then the proposed values,
\* then the merged count.  An existing tag with an empty or blank key or value, or
\* a key or value over the length limits, fails the merge with
\* SchemaValidationError before anything is merged, also when its key is a schema
\* key whose value the merge would replace; when existing and proposed are both
\* invalid the error is the one about the existing tags; invalid proposed values
\* are reported before a merged count over the limit.
C25_ExistingCheckedFirst ==
    MergeCalled =>
        /\ FaultyExisting(args.existing_tags, args.provider) =>
               /\ ret.raised = "SchemaValidationError"
               /\ ret.msg \in ExistingTagMessages
               /\ ret = validate_existing_tags(args.existing_tags, args.provider)
        /\ (/\ ValidExisting(args.existing_tags, args.provider)
            /\ ~ValidProposed(args.new_tags, args.tag_keys, args.provider)) =>
               /\ ret.raised = "SchemaValidationError"
               /\ ret = validate_tag_values(dict_values(args.new_tags, args.tag_keys),
                                            args.tag_keys, args.provider)
               /\ ret.msg # "Total tags would exceed the limit"

\* the object carries an over-long value under a schema key, the proposal's value
\* for that key is empty, and the error reported is the one about the object's tag
C25_Witness ==
    /\ MergeCalled
    /\ \E k \in Range(args.tag_keys) \cap DOMAIN args.existing_tags :
           /\ Len(args.existing_tags[k]) > limits[args.provider].max_value
           /\ args.new_tags[k] = <<>>
    /\ ret = Raise("SchemaValidationError", "Tag value exceeds character limit")

StoresTags == self.storage_provider_type \in {"aws", "gcp"}

TagsBeforeFirstRun(key) == InitialTags(self.storage_provider_type, key)

\* a write adds the schema keys, which no object carries all of before the first
\* run, and nothing else changes the stored tags: they differ from the first ones
\* exactly when an earlier apply reached the applied state
WasApplied(key) == stored[key] # TagsBeforeFirstRun(key)

\* the tag set of the object is the written mapping, and its other tags are the
\* first ones
StoredTagsKept ==
    (RunStarted /\ StoresTags) =>
        \A key \in Range(bucket) :
            LET first == TagsBeforeFirstRun(key)
                now == stored[key]
                schema == Range(tag_keys)
            IN /\ [k \in (DOMAIN now) \ schema |-> now[k]] =
                      [k \in (DOMAIN first) \ schema |-> first[k]]
               /\ (key \in Records /\ Applied(result.results[key])) =>
                      LET r == result.results[key]
                      IN /\ now # first
                         /\ now = r.applied[1]
                         /\ \A k \in schema : now[k] = r.proposed[1][k]
                         /\ [k \in (DOMAIN now) \ schema |-> now[k]] =
                                [k \in (DOMAIN r.existing) \ schema |-> r.existing[k]]

\* a step changes stored tags only by a successful write, which stores the merged
\* mapping; on an object applied before, the merge does not fail on the count and
\* the write leaves the number of tags as it was
WritesStoreTheMerge ==
    StoresTags =>
        /\ stored' # stored =>
               \E c \in NewCalls : c.op = "set_object_tags" /\ c.err = ""
        /\ \A c \in NewCalls :
               /\ (c.op = "set_object_tags" /\ c.err = "") =>
                      /\ stored'[c.key] = c.tags
                      /\ c.tags = loc.final_tags
                      /\ stored'[c.key] # TagsBeforeFirstRun(c.key)
                      /\ \A other \in Range(bucket) \ {c.key} : stored'[other] = stored[other]
                      /\ WasApplied(c.key) =>
                             Cardinality(DOMAIN stored'[c.key]) =
                                 Cardinality(DOMAIN stored[c.key])
               /\ (c.op = "merge_and_validate_tags" /\ WasApplied(c.key)) =>
                      c.err \notin {"Total tags would exceed the limit",
                                    "Object has too many tags"}

\* C27: on a backend that stores tags (aws, gcp), through any sequence of
\* apply_tags() runs with one schema, every successful write leaves the object's
\* stored tags equal to the merged mapping, every stored tag whose key is no schema
\* key keeps the value it had before the first run, and once an object has been
\* applied a later apply on it never fails the tag-count check: its number of
\* stored tags stays the same across re-applies.
C27_ReapplyKeepsTags == []StoredTagsKept /\ [][WritesStoreTheMerge]_vars

\* the second run has applied f.txt again, which the first run filled to the limit
C27_Witness ==
    /\ StoresTags
    /\ runs = 2
    /\ ObjF \in Records
    /\ Applied(result.results[ObjF])
    /\ result.results[ObjF].existing # TagsBeforeFirstRun(ObjF)
    /\ Cardinality(DOMAIN result.results[ObjF].existing) =
           limits[self.storage_provider_type].max_tags
    /\ Cardinality(DOMAIN stored[ObjF]) = limits[self.storage_provider_type].max_tags

(***************************************************************************)
(* Relations between the counts of a summary.                              *)
(***************************************************************************)
\* C28: for every result over a non-empty enumeration, applied <= processed <=
\* total_objects; in a preview, applied = 0 and processed + skipped =
\* total_objects; in an apply, applied + skipped = total_objects and processed +
\* skipped exceeds total_objects by exactly the number of apply-failed skips.
C28_SummaryRelations ==
    (Returned /\ objects # <<>>) =>
        LET s == result.summary
        IN /\ s.applied <= s.processed
           /\ s.processed <= s.total_objects
           /\ result.mode = "preview" =>
                  /\ s.applied = 0
                  /\ s.processed + s.skipped = s.total_objects
           /\ result.mode = "apply" =>
                  /\ s.applied + s.skipped = s.total_objects
                  /\ s.processed + s.skipped = s.total_objects + CountOf(ApplyFailedSkip)

\* an apply run that returned an applied record, an apply-failed skip and another skip
C28_Witness ==
    /\ Returned
    /\ result.mode = "apply"
    /\ CountOf(Applied) >= 1
    /\ CountOf(ApplyFailedSkip) >= 1
    /\ CountOf(UnsupportedSkip) >= 1
    /\ result.summary.processed + result.summary.skipped > result.summary.total_objects

(***************************************************************************)
(* The azure backend, under SpecRepeat.                                    *)
(***************************************************************************)
OnAzure == self.storage_provider_type = "azure"

\* the schemas of n keys the constructor accepts for azure
AzureSchemaSizes ==
    {n \in 1..MaxSchemaKeys :
        /\ TaggingConfig(WellFormedSchema(n), Some(ConfiguredMaxBytes)).raised = "none"
        /\ validate_tagging_config(WellFormedSchema(n), "azure").raised = "none"}

\* C29: with the azure backend a tag read that returns gives the empty mapping and
\* a tag write changes nothing stored; so in an apply run every object whose
\* proposed tags were computed is applied with applied = proposed, the apply-failed
\* skip does not occur, and a later run reads existing = {} for the object again.
\* No schema the constructor accepts is too large for the merge with no existing
\* tags; that is compared before the first run.
C29_AzureKeepsNoTags ==
    OnAzure =>
        /\ ~RunStarted =>
               \A n \in AzureSchemaSizes :
                   LET keys == schema_keys(WellFormedSchema(n))
                       proposal == [k \in Range(keys) |-> NewValue]
                   IN merge_and_validate_tags(<<>>, proposal, keys, "azure") = Return(proposal)
        /\ RunStarted =>
               /\ stored = [k \in Range(bucket) |-> InitialTags("azure", k)]
               /\ \A n \in 1..Len(calls) :
                      /\ (calls[n].op = "get_object_tags" /\ calls[n].err = "") =>
                             calls[n].tags = <<>>
                      /\ calls[n].op \in {"set_object_tags", "merge_and_validate_tags"} =>
                             calls[n].err = ""
               /\ \A key \in Records :
                      LET r == result.results[key]
                      IN /\ ~ApplyFailedSkip(r)
                         /\ r.existing = <<>>
                         /\ r.proposed # None =>
                                Applied(r) /\ r.applied = r.proposed

\* a second run on azure applied a.txt, whose blob carries tags and which a run
\* before wrote to, and read no existing tags
C29_Witness ==
    /\ OnAzure
    /\ runs = 2
    /\ ObjA \in Records
    /\ Applied(result.results[ObjA])
    /\ result.results[ObjA].existing = <<>>
    /\ stored[ObjA] # <<>>
    /\ CallsOf("set_object_tags", ObjA) # {}

(***************************************************************************)
(* The byte budget of a run, under SpecBudget.                             *)
(***************************************************************************)
\* C30: the byte budget of a run is the max_bytes passed to preview_tags() or
\* apply_tags() when one is passed and the constructor's max_bytes otherwise; in
\* every run it is a positive integer, so the content placed in the prompt never
\* exceeds it in UTF-8 bytes.
C30_BudgetIsPositive ==
    RunStarted =>
        /\ process_max_bytes =
               (IF args.max_bytes # None THEN args.max_bytes[1] ELSE self.max_bytes)
        /\ process_max_bytes > 0
        /\ pc = "generate_tags" => ByteLen(loc.truncated_content) <= process_max_bytes

\* what the code does: an argument of None or 0 gives the constructor's max_bytes,
\* any other int is taken as it is; a positive budget bounds the content of the
\* prompt, a negative one cuts that many bytes off the end of the whole content
C30_BudgetOfTheCode ==
    RunStarted =>
        /\ process_max_bytes =
               (IF args.max_bytes \in {None, Some(0)} THEN self.max_bytes
                ELSE args.max_bytes[1])
        /\ (pc = "generate_tags" /\ process_max_bytes > 0) =>
               ByteLen(loc.truncated_content) <= process_max_bytes

====
